---- MODULE Spec2Model ----
(***************************************************************************)
(* Word-guessing game backend: the session state machine of               *)
(* api/views.py (start_game, submit_guess, request_hint), the puzzle      *)
(* engines of api/puzzles/engines.py, the hint helpers of                 *)
(* api/puzzles/hints.py and the tables of api/models.py.                  *)
(*                                                                         *)
(* Every HTTP request is handled by a worker (a request slot).  A handler *)
(* is a sequence of database statements; each statement is one atomic     *)
(* step, and statements of different requests interleave freely.  The     *)
(* handler keeps the model instance it loaded (loc[r].session) and writes *)
(* back only the columns named in update_fields.                          *)
(*                                                                         *)
(* Every statement of the handlers is keyed by one session id, so a run   *)
(* follows one session, from its creation by start_game, with two request *)
(* workers.                                                                *)
(***************************************************************************)
EXTENDS Integers, Sequences, FiniteSets, TLC

(* ------------------------------ bounds -------------------------------- *)

\* The clock (timezone.now(), in whole seconds) runs from 0 to MaxTime.
MaxTime == 1
\* Largest max_attempts a start-game request of the concurrent runs asks for.
MaxAttemptsRequested == 2
\* The longest word given to the puzzle engines on their own.
MaxWordLen == 3

(* ------------------------- program constants --------------------------- *)

MAX_HINTS_PER_SESSION == 2
DEFAULT_MAX_ATTEMPTS == 6
DEFAULT_TIME_LIMIT == 60
MIN_TIME_LIMIT == 5

\* The request workers: two requests may be in flight at once.
Requests == {1, 2}

None == <<>>
Some(v) == <<v>>
IsNone(o) == o = <<>>
Get(o) == o[1]

Min(a, b) == IF a <= b THEN a ELSE b
Max(a, b) == IF a >= b THEN a ELSE b

(* ------------------------------ strings -------------------------------- *)
\* A string is a sequence of one-character strings.

LowerLetters == {"a", "b"}
UpperLetters == {"A", "B"}

\* str.lower() on one character
LowerChar(c) == IF c = "A" THEN "a" ELSE IF c = "B" THEN "b" ELSE c

Lower(s) == [i \in 1..Len(s) |-> LowerChar(s[i])]

RECURSIVE LStrip(_)
LStrip(s) == IF s # <<>> /\ Head(s) = " " THEN LStrip(Tail(s)) ELSE s

RECURSIVE RStrip(_)
RStrip(s) ==
  IF s # <<>> /\ s[Len(s)] = " " THEN RStrip(SubSeq(s, 1, Len(s) - 1)) ELSE s

\* str.strip()
Strip(s) == RStrip(LStrip(s))

\* str.isalpha(): non-empty and every character a letter
IsAlpha(s) == s # <<>> /\ \A i \in 1..Len(s) : s[i] \in LowerLetters \cup UpperLetters

\* serializers._normalize_word
NormalizeWord(value) == Lower(Strip(value))

\* serializers._validate_guess_word: TRUE when the ValidationError is raised
GuessWordInvalid(value) == NormalizeWord(value) = <<>> \/ ~IsAlpha(NormalizeWord(value))

(* ------------------------------ Word table ----------------------------- *)

\* The rows of the Word table (read-only during gameplay).
WordTable ==
  { [text |-> <<"a", "b", "b">>, length |-> 3, is_active |-> TRUE],
    [text |-> <<"b", "a", "b">>, length |-> 3, is_active |-> FALSE],
    [text |-> <<"a", "a", "b">>, length |-> 3, is_active |-> FALSE] }

\* Mutant of ActiveWords: the words of length n, active or not.
ActiveWordsOrInactive(n) == {w \in WordTable : w.length = n}

\* Word.objects.filter(length=n, is_active=True)
ActiveWords(n) == {w \in WordTable : w.length = n /\ w.is_active}

\* Word.objects.filter(text=g, length=n).exists()
InDictionary(g, n) == \E w \in WordTable : w.text = g /\ w.length = n

(* --------------------------- feedback engine --------------------------- *)

\* Mutant of RemainingAfterPass1: every occurrence of c in the target counted,
\* the exactly matched ones included.
RemainingCountsAll(t, g, c) ==
  Cardinality({i \in 1..Len(t) : t[i] = c})

\* Pass 1 of _compute_letter_feedback: remaining_counts[c] after the first loop
RemainingAfterPass1(t, g, c) ==
  Cardinality({i \in 1..Len(t) : g[i] # t[i] /\ t[i] = c})

\* The second pass taken from position i down to 1, right to left.
RECURSIVE Pass2Down(_, _, _, _, _)
Pass2Down(t, g, i, rem, res) ==
  IF i < 1 THEN res
  ELSE IF g[i] = t[i] THEN Pass2Down(t, g, i - 1, rem, <<"correct">> \o res)
  ELSE IF g[i] \in DOMAIN rem /\ rem[g[i]] > 0
       THEN Pass2Down(t, g, i - 1, [rem EXCEPT ![g[i]] = @ - 1], <<"present">> \o res)
       ELSE Pass2Down(t, g, i - 1, rem, <<"absent">> \o res)

\* Mutant of Pass2: the remaining counts given out from the right.
Pass2RightToLeft(t, g, i, rem, res) == Pass2Down(t, g, Len(t), rem, res)

\* Pass 2 of _compute_letter_feedback, position i onwards, left to right;
\* rem is remaining_counts, res the result list so far.
RECURSIVE Pass2(_, _, _, _, _)
Pass2(t, g, i, rem, res) ==
  IF i > Len(t) THEN res
  ELSE IF g[i] = t[i] THEN Pass2(t, g, i + 1, rem, Append(res, "correct"))
  ELSE IF g[i] \in DOMAIN rem /\ rem[g[i]] > 0
       THEN Pass2(t, g, i + 1, [rem EXCEPT ![g[i]] = @ - 1], Append(res, "present"))
       ELSE Pass2(t, g, i + 1, rem, Append(res, "absent"))

\* engines._compute_letter_feedback
ComputeLetterFeedback(t, g) ==
  LET keys == {t[i] : i \in 1..Len(t)}
      rem  == [c \in keys |-> RemainingAfterPass1(t, g, c)]
  IN  Pass2(t, g, 1, rem, <<>>)

\* Mutant of ExpandChar: the mapping without its "y" entry.
ExpandCharWithoutPresent(ch) == IF ch = "g" THEN "correct" ELSE "absent"

\* get_session_detail: mapping.get(ch, "absent") of the compact characters
ExpandChar(ch) ==
  IF ch = "g" THEN "correct" ELSE IF ch = "y" THEN "present" ELSE "absent"

\* get_session_detail: the feedback list read back from a stored result
ExpandCompact(result) == [i \in 1..Len(result) |-> ExpandChar(result[i])]

\* serializers.feedback_to_compact
CompactChar(x) == IF x = "correct" THEN "g" ELSE IF x = "present" THEN "y" ELSE "b"
FeedbackToCompact(f) == [i \in 1..Len(f) |-> CompactChar(f[i])]

\* collections.Counter(s)[c]
CountOf(s, c) == Cardinality({i \in 1..Len(s) : s[i] = c})

\* Counter(a) == Counter(b)
SameMultiset(a, b) ==
  \A c \in {a[i] : i \in 1..Len(a)} \cup {b[i] : i \in 1..Len(b)} :
     CountOf(a, c) = CountOf(b, c)

\* Mutant of ClassicEvaluate: is_correct compares the strings as given.
ClassicEvaluateRawCompare(target, guess) ==
  LET tn == Lower(Strip(target))
      gn == Lower(Strip(guess))
  IN  IF Len(tn) # Len(gn)
      THEN [error |-> TRUE, feedback |-> <<>>, is_correct |-> FALSE, engine |-> "classic"]
      ELSE [error |-> FALSE, feedback |-> ComputeLetterFeedback(tn, gn),
            is_correct |-> (target = guess), engine |-> "classic"]

\* ClassicEngine.evaluate; error = TRUE stands for the ValueError
ClassicEvaluate(target, guess) ==
  LET tn == Lower(Strip(target))
      gn == Lower(Strip(guess))
  IN  IF Len(tn) # Len(gn)
      THEN [error |-> TRUE, feedback |-> <<>>, is_correct |-> FALSE, engine |-> "classic"]
      ELSE [error |-> FALSE, feedback |-> ComputeLetterFeedback(tn, gn),
            is_correct |-> (tn = gn), engine |-> "classic"]

\* Mutant of AnagramEvaluate: the lengths compared before trimming.
AnagramEvaluateRawLength(target, guess) ==
  LET tn == Lower(Strip(target))
      gn == Lower(Strip(guess))
  IN  IF Len(target) # Len(guess) \/ Len(tn) # Len(gn)
      THEN [error |-> TRUE, feedback |-> <<>>, is_correct |-> FALSE, engine |-> "anagram"]
      ELSE [error |-> FALSE, feedback |-> ComputeLetterFeedback(tn, gn),
            is_correct |-> SameMultiset(tn, gn), engine |-> "anagram"]

\* Mutant of AnagramEvaluate: is_correct by position, as the Classic engine.
AnagramEvaluatePositional(target, guess) ==
  LET tn == Lower(Strip(target))
      gn == Lower(Strip(guess))
  IN  IF Len(tn) # Len(gn)
      THEN [error |-> TRUE, feedback |-> <<>>, is_correct |-> FALSE, engine |-> "anagram"]
      ELSE [error |-> FALSE, feedback |-> ComputeLetterFeedback(tn, gn),
            is_correct |-> (tn = gn), engine |-> "anagram"]

\* AnagramEngine.evaluate
AnagramEvaluate(target, guess) ==
  LET tn == Lower(Strip(target))
      gn == Lower(Strip(guess))
  IN  IF Len(tn) # Len(gn)
      THEN [error |-> TRUE, feedback |-> <<>>, is_correct |-> FALSE, engine |-> "anagram"]
      ELSE [error |-> FALSE, feedback |-> ComputeLetterFeedback(tn, gn),
            is_correct |-> SameMultiset(tn, gn), engine |-> "anagram"]

\* The keys of EngineRegistry._registry as the module defines it.
KeyClassic == <<"c", "l", "a", "s", "s", "i", "c">>
KeyAnagram == <<"a", "n", "a", "g", "r", "a", "m">>

\* EngineRegistry._registry as the module defines it
InitialRegistry == (KeyClassic :> "ClassicEngine") @@ (KeyAnagram :> "AnagramEngine")

\* Mutant of RegistryKey: the key lowercased but not trimmed.
RegistryKeyUntrimmed(puzzle_type) == Lower(puzzle_type)

\* EngineRegistry.get / register: key = (puzzle_type or "").strip().lower()
RegistryKey(puzzle_type) == Lower(Strip(puzzle_type))

\* EngineRegistry.get on registry reg: the engine class, None for the KeyError
RegistryGet(reg, puzzle_type) ==
  IF RegistryKey(puzzle_type) \in DOMAIN reg
  THEN Some(reg[RegistryKey(puzzle_type)])
  ELSE None

\* EngineRegistry.register on registry reg: the registry afterwards (reg
\* itself when it raises ValueError)
RegistryRegister(reg, puzzle_type, engine_cls) ==
  IF RegistryKey(puzzle_type) = <<>> THEN reg
  ELSE [k \in DOMAIN reg \cup {RegistryKey(puzzle_type)} |->
          IF k = RegistryKey(puzzle_type) THEN engine_cls ELSE reg[k]]

\* EngineRegistry._registry: the session.puzzle_type values with an engine
RegistryKeys == {"classic", "anagram"}

\* EngineRegistry.get / get_engine followed by engine.evaluate
EngineEvaluate(puzzle_type, target, guess) ==
  IF puzzle_type = "anagram" THEN AnagramEvaluate(target, guess)
  ELSE ClassicEvaluate(target, guess)


(* ------------------------------- state --------------------------------- *)

VARIABLES
  now,       \* timezone.now(), whole seconds
  sessions,  \* the GameSession table: a sequence, the row's id is its index
  guesses,   \* the Guess table: per session id, the committed rows in insertion order
  pc,        \* per request worker, the statement it is at
  loc,       \* per request worker, the handler's local variables
  resp,      \* per request worker, the response it is about to return
  registry   \* EngineRegistry._registry: the engine class of each registered key

vars == <<now, sessions, guesses, pc, loc, resp, registry>>

\* A GameSession instance with the model's field defaults (models.py).
BlankSession ==
  [target |-> <<>>, length |-> 0, max_attempts |-> DEFAULT_MAX_ATTEMPTS,
   is_completed |-> FALSE, is_won |-> FALSE, started_at |-> 0, ended_at |-> None,
   mode |-> "classic", puzzle_type |-> "word", hints_used |-> 0, difficulty |-> 1,
   time_limit_secs |-> None, total_time_secs |-> None]

BlankLoc ==
  [sid |-> 0, session |-> BlankSession, guess |-> <<>>, attempts_used |-> 0,
   attempt_number |-> 0, feedback |-> <<>>, is_correct |-> FALSE, engine |-> "",
   hint_type |-> "", mode |-> "", puzzle_type |-> "", registry_arg |-> <<>>]

BlankResp ==
  [kind |-> "", http |-> 0, error |-> "", session_id |-> 0, attempt_number |-> 0,
   is_correct |-> FALSE, attempts_used |-> 0, max_attempts |-> 0, status |-> "",
   score |-> 0, base_score |-> 0, hint_penalty |-> 0, time_bonus |-> 0,
   feedback |-> <<>>, index |-> 0, letter |-> "", remaining |-> 0,
   hints_used |-> 0, total_time_secs |-> None, entries |-> <<>>]

ErrorResp(kind, http, msg) == [BlankResp EXCEPT !.kind = kind, !.http = http, !.error = msg]

Init ==
  /\ now = 0
  /\ sessions = <<>>
  /\ guesses = <<>>
  /\ pc = [r \in Requests |-> "idle"]
  /\ loc = [r \in Requests |-> BlankLoc]
  /\ resp = [r \in Requests |-> BlankResp]
  /\ registry = InitialRegistry

(* --------------------------- session helpers --------------------------- *)

\* views._session_status
SessionStatus(s) ==
  IF s.is_completed THEN (IF s.is_won THEN "WON" ELSE "LOST") ELSE "IN_PROGRESS"

\* views._attempts_used: session.guesses.count()
AttemptsUsed(sid) == Len(guesses[sid])

\* Mutant of MarkCompleted: the session always marked as won.
MarkCompletedAsWon(s, won, t) ==
  [s EXCEPT !.is_completed = TRUE, !.is_won = TRUE, !.ended_at = Some(t)]

\* GameSession.mark_completed on the in-memory instance, at clock value t
MarkCompleted(s, won, t) ==
  [s EXCEPT !.is_completed = TRUE, !.is_won = won, !.ended_at = Some(t)]

\* Mutant of SaveCompletion: update_fields without "ended_at".
SaveCompletionWithoutEndedAt(row, inst) ==
  [row EXCEPT !.is_completed = inst.is_completed, !.is_won = inst.is_won]

\* Mutant of SaveCompletion: save() without update_fields, every column of
\* the row written from the instance.
SaveCompletionWholeRow(row, inst) == inst

\* self.save(update_fields=["is_completed", "is_won", "ended_at", "updated_at"]):
\* the stored row takes these columns, and only these, from the instance.
SaveCompletion(row, inst) ==
  [row EXCEPT !.is_completed = inst.is_completed, !.is_won = inst.is_won,
              !.ended_at = inst.ended_at]

\* int((timezone.now() - session.started_at).total_seconds())
ElapsedSecs(s, t) == t - s.started_at

\* submit_guess: "if session.mode == 'timed' and session.total_time_secs is None"
WithTotalTime(s, t) ==
  IF s.mode = "timed" /\ IsNone(s.total_time_secs)
  THEN [s EXCEPT !.total_time_secs = Some(ElapsedSecs(s, t))]
  ELSE s

\* Mutant of AttemptsExhausted: ">" for ">=".
AttemptsExhaustedStrict(used, max) == used > max

\* submit_guess: "if attempts_used >= session.max_attempts"
AttemptsExhausted(used, max) == used >= max

\* Mutant of NextAttemptNumber: the count itself, a 0-based number.
NextAttemptNumberZeroBased(used) == used

\* submit_guess: "attempt_number = attempts_used + 1"
NextAttemptNumber(used) == used + 1

\* Mutant of IsLastAttempt: ">" for ">=".
IsLastAttemptStrict(attempt_number, max) == attempt_number > max

\* Mutant of IsLastAttempt: no losing branch.
IsLastAttemptNever(attempt_number, max) == FALSE

\* submit_guess: "if attempt_number >= session.max_attempts" (the losing guess)
IsLastAttempt(attempt_number, max) == attempt_number >= max

\* Mutant of UniqueViolation: no unique_together constraint.
UniqueViolationNotEnforced(rows, n) == FALSE

\* Guess.Meta.unique_together = (("session", "attempt_number"),): TRUE when an
\* insert of attempt number n among the committed rows violates it
UniqueViolation(rows, n) == \E i \in 1..Len(rows) : rows[i].attempt_number = n

\* Mutant of RolledBack: no atomic block, the INSERT is committed on its own.
RolledBackNotAtomic(rows, row) == Append(rows, row)

\* "with transaction.atomic()": what the Guess table holds after the block is
\* left by an exception, rows being its content before the block and row the
\* Guess inserted inside it
RolledBack(rows, row) == rows

(* ------------------------------- scoring -------------------------------- *)

\* Mutant of ComputeBaseScore: a win scored without the + 1.
ComputeBaseScoreNoWinPoint(s, used) ==
  IF s.is_completed
  THEN (IF s.is_won THEN Max(s.max_attempts - used, 1) ELSE 0)
  ELSE Max(s.max_attempts - used, 0)

\* views._compute_base_score
ComputeBaseScore(s, used) ==
  IF s.is_completed
  THEN (IF s.is_won THEN Max(s.max_attempts - used + 1, 1) ELSE 0)
  ELSE Max(s.max_attempts - used, 0)

\* Mutant of ComputeTimeBonus: the remaining time not clamped at 0.
ComputeTimeBonusUnclamped(s) ==
  IF s.mode # "timed" THEN 0
  ELSE IF IsNone(s.time_limit_secs) \/ IsNone(s.total_time_secs) THEN 0
  ELSE (Get(s.time_limit_secs) - Get(s.total_time_secs)) \div 10

\* views._compute_time_bonus
ComputeTimeBonus(s) ==
  IF s.mode # "timed" THEN 0
  ELSE IF IsNone(s.time_limit_secs) \/ IsNone(s.total_time_secs) THEN 0
  ELSE Max(Get(s.time_limit_secs) - Get(s.total_time_secs), 0) \div 10

\* views._compute_hint_penalty
ComputeHintPenalty(s) == s.hints_used * 1

\* Mutant of ComputeScore: the score not clamped at 0.
ComputeScoreUnclamped(s, used) ==
  ComputeBaseScore(s, used) + ComputeTimeBonus(s) - ComputeHintPenalty(s)

\* views._compute_score_breakdown
ComputeScore(s, used) ==
  Max(ComputeBaseScore(s, used) + ComputeTimeBonus(s) - ComputeHintPenalty(s), 0)


(* ------------------------------ requests -------------------------------- *)

\* Workers are interchangeable: a new request takes the lowest idle one.
FreeSlot(r) == pc[r] = "idle" /\ \A q \in 1..(r - 1) : pc[q] # "idle"

\* No request is being handled.
Quiet == \A q \in Requests : pc[q] = "idle"

\* The request payloads the runs draw from.
WordLengths == {3, 4}
Modes == {"classic", "timed"}
PuzzleTypes == {"classic", "anagram"}
Difficulties == {1, 4}
TimeLimits == {None}
AttemptChoices == 1..MaxAttemptsRequested
\* The session ids requests name: that of the session, and one no row has.
SessionIds == {1, 2}
HintTypes == {"reveal_position", "reveal_first_letter"}
GuessInputs ==
  { <<"a", "b", "b">>, <<"b", "a", "b">>, <<"a", "a", "b">>,
    <<" ", "A", "b", "B">>, <<"b", "b", "b">>, <<"a", "b">>, <<" ">> }

\* Mutant of AdjustedMaxAttempts: one attempt less per difficulty level.
AdjustedMaxAttemptsPerLevel(max_attempts, difficulty) ==
  Max(1, Min(10, max_attempts - Max(0, difficulty - 1)))

\* start_game: "max(1, min(10, max_attempts - max(0, difficulty - 1) // 3))"
AdjustedMaxAttempts(max_attempts, difficulty) ==
  Max(1, Min(10, max_attempts - (Max(0, difficulty - 1) \div 3)))

\* StartGameRequestSerializer.validate: the time limit after validation
ValidatedTimeLimit(mode, tl) ==
  IF mode = "timed" /\ IsNone(tl) THEN Some(DEFAULT_TIME_LIMIT) ELSE tl

\* views.start_game, one statement: the serializer's check of the Word table,
\* the random pick of the target and the INSERT of the session.
StartGame(r, word_length, max_attempts, mode, puzzle_type, difficulty, tl) ==
  /\ FreeSlot(r)
  /\ sessions = <<>>
  /\ IF ActiveWords(word_length) = {}
     THEN /\ resp' = [resp EXCEPT ![r] = ErrorResp("start", 400, "no_active_words")]
          /\ UNCHANGED <<sessions, guesses>>
     ELSE \E w \in ActiveWords(word_length) :
            LET s == [BlankSession EXCEPT
                        !.target = w.text, !.length = w.length,
                        !.max_attempts = AdjustedMaxAttempts(max_attempts, difficulty),
                        !.mode = mode, !.puzzle_type = puzzle_type,
                        !.difficulty = difficulty, !.started_at = now,
                        !.time_limit_secs =
                           IF mode = "timed" THEN ValidatedTimeLimit(mode, tl) ELSE None]
                sid == Len(sessions) + 1
            IN  /\ sessions' = Append(sessions, s)
                /\ guesses' = Append(guesses, <<>>)
                /\ resp' = [resp EXCEPT ![r] =
                     [BlankResp EXCEPT
                        !.kind = "start", !.http = 200, !.session_id = sid,
                        !.max_attempts = s.max_attempts, !.attempts_used = 0,
                        !.status = SessionStatus(s), !.hints_used = s.hints_used,
                        !.total_time_secs = s.total_time_secs]]
  /\ pc' = [pc EXCEPT ![r] = "done"]
  /\ UNCHANGED <<registry, now, loc>>

\* Mutant of GuessValidate: a guess that is not in the dictionary is recorded
\* as an attempt before it is rejected.
GuessValidateRecordsMiss(r, sid, raw) ==
  /\ FreeSlot(r)
  /\ LET guess == NormalizeWord(raw)
         reject(msg) ==
           /\ resp' = [resp EXCEPT ![r] = ErrorResp("guess", 400, msg)]
           /\ pc' = [pc EXCEPT ![r] = "done"]
           /\ UNCHANGED loc
     IN  IF GuessWordInvalid(raw) THEN reject("invalid_guess") /\ UNCHANGED guesses
         ELSE IF sid > Len(sessions) THEN reject("session_not_found") /\ UNCHANGED guesses
         ELSE IF sessions[sid].is_completed
         THEN reject("already_completed") /\ UNCHANGED guesses
         ELSE IF Len(guess) # sessions[sid].length
         THEN reject("length_mismatch") /\ UNCHANGED guesses
         ELSE IF ~InDictionary(guess, sessions[sid].length)
         THEN /\ reject("not_in_dictionary")
              /\ guesses' = [guesses EXCEPT ![sid] =
                    Append(@, [attempt_number |-> Len(@) + 1, guess_word |-> guess,
                               result |-> <<"b", "b", "b">>, is_correct |-> FALSE,
                               engine |-> "classic"])]
         ELSE /\ loc' = [loc EXCEPT ![r] =
                   [BlankLoc EXCEPT !.sid = sid, !.session = sessions[sid], !.guess = guess]]
              /\ pc' = [pc EXCEPT ![r] = "guess_count"]
              /\ UNCHANGED <<resp, guesses>>
  /\ UNCHANGED <<registry, now, sessions>>

\* Mutant of GuessValidate: validate without the is_completed test.
GuessValidateAcceptsCompleted(r, sid, raw) ==
  /\ FreeSlot(r)
  /\ LET guess == NormalizeWord(raw)
         reject(msg) ==
           /\ resp' = [resp EXCEPT ![r] = ErrorResp("guess", 400, msg)]
           /\ pc' = [pc EXCEPT ![r] = "done"]
           /\ UNCHANGED loc
     IN  IF GuessWordInvalid(raw) THEN reject("invalid_guess")
         ELSE IF sid > Len(sessions) THEN reject("session_not_found")
         ELSE IF Len(guess) # sessions[sid].length THEN reject("length_mismatch")
         ELSE IF ~InDictionary(guess, sessions[sid].length) THEN reject("not_in_dictionary")
         ELSE /\ loc' = [loc EXCEPT ![r] =
                   [BlankLoc EXCEPT !.sid = sid, !.session = sessions[sid], !.guess = guess]]
              /\ pc' = [pc EXCEPT ![r] = "guess_count"]
              /\ UNCHANGED resp
  /\ UNCHANGED <<registry, now, sessions, guesses>>

\* GuessRequestSerializer.validate: the checks on the guess and the SELECT of
\* the session (with its target word).
GuessValidate(r, sid, raw) ==
  /\ FreeSlot(r)
  /\ LET guess == NormalizeWord(raw)
         reject(msg) ==
           /\ resp' = [resp EXCEPT ![r] = ErrorResp("guess", 400, msg)]
           /\ pc' = [pc EXCEPT ![r] = "done"]
           /\ UNCHANGED loc
     IN  IF GuessWordInvalid(raw) THEN reject("invalid_guess")
         ELSE IF sid > Len(sessions) THEN reject("session_not_found")
         ELSE IF sessions[sid].is_completed THEN reject("already_completed")
         ELSE IF Len(guess) # sessions[sid].length THEN reject("length_mismatch")
         ELSE IF ~InDictionary(guess, sessions[sid].length) THEN reject("not_in_dictionary")
         ELSE /\ loc' = [loc EXCEPT ![r] =
                   [BlankLoc EXCEPT !.sid = sid, !.session = sessions[sid], !.guess = guess]]
              /\ pc' = [pc EXCEPT ![r] = "guess_count"]
              /\ UNCHANGED resp
  /\ UNCHANGED <<registry, now, sessions, guesses>>

\* Whether the time limit of session s has elapsed at clock value t.
PastLimit(s, t) == ~IsNone(s.time_limit_secs) /\ ElapsedSecs(s, t) > Get(s.time_limit_secs)

\* Mutant of GuessCount: a guess on a session past its time limit is turned
\* away and ends the session as LOST.
GuessCountEnforcesLimit(r) ==
  /\ pc[r] = "guess_count"
  /\ LET sid  == loc[r].sid
         s    == loc[r].session
         used == AttemptsUsed(sid)
         ev   == EngineEvaluate(s.puzzle_type, s.target, loc[r].guess)
     IN  IF AttemptsExhausted(used, s.max_attempts) \/ PastLimit(s, now)
         THEN LET s1 == IF ~s.is_completed THEN MarkCompleted(s, FALSE, now) ELSE s
              IN  /\ sessions' = IF ~s.is_completed
                                 THEN [sessions EXCEPT ![sid] = SaveCompletion(@, s1)]
                                 ELSE sessions
                  /\ loc' = [loc EXCEPT ![r] = BlankLoc]
                  /\ resp' = [resp EXCEPT ![r] =
                       [ErrorResp("guess", 409, "no_attempts_remaining") EXCEPT
                          !.session_id = sid, !.status = SessionStatus(s1)]]
                  /\ pc' = [pc EXCEPT ![r] = "done"]
         ELSE IF s.puzzle_type \notin RegistryKeys
         THEN /\ resp' = [resp EXCEPT ![r] = ErrorResp("guess", 500, "unknown_puzzle_type")]
              /\ pc' = [pc EXCEPT ![r] = "done"]
              /\ loc' = [loc EXCEPT ![r] = BlankLoc]
              /\ UNCHANGED sessions
         ELSE IF ev.error
         THEN /\ resp' = [resp EXCEPT ![r] = ErrorResp("guess", 400, "engine_length_mismatch")]
              /\ pc' = [pc EXCEPT ![r] = "done"]
              /\ loc' = [loc EXCEPT ![r] = BlankLoc]
              /\ UNCHANGED sessions
         ELSE /\ loc' = [loc EXCEPT ![r].attempts_used = used,
                                    ![r].attempt_number = NextAttemptNumber(used),
                                    ![r].feedback = ev.feedback,
                                    ![r].is_correct = ev.is_correct,
                                    ![r].engine = ev.engine]
              /\ pc' = [pc EXCEPT ![r] = "guess_insert"]
              /\ UNCHANGED <<sessions, resp>>
  /\ UNCHANGED <<registry, now, guesses>>

\* submit_guess, from "attempts_used = _attempts_used(session)" to
\* "attempt_number = attempts_used + 1": the COUNT of the session's guesses,
\* the exhausted-attempts branch with its mark_completed(False), and the
\* engine's evaluation.
GuessCount(r) ==
  /\ pc[r] = "guess_count"
  /\ LET sid  == loc[r].sid
         s    == loc[r].session
         used == AttemptsUsed(sid)
         ev   == EngineEvaluate(s.puzzle_type, s.target, loc[r].guess)
     IN  IF AttemptsExhausted(used, s.max_attempts)
         THEN LET s1 == IF ~s.is_completed THEN MarkCompleted(s, FALSE, now) ELSE s
              IN  /\ sessions' = IF ~s.is_completed
                                 THEN [sessions EXCEPT ![sid] = SaveCompletion(@, s1)]
                                 ELSE sessions
                  /\ loc' = [loc EXCEPT ![r] = BlankLoc]
                  /\ resp' = [resp EXCEPT ![r] =
                       [ErrorResp("guess", 409, "no_attempts_remaining") EXCEPT
                          !.session_id = sid, !.status = SessionStatus(s1)]]
                  /\ pc' = [pc EXCEPT ![r] = "done"]
         ELSE IF s.puzzle_type \notin RegistryKeys
         THEN /\ resp' = [resp EXCEPT ![r] = ErrorResp("guess", 500, "unknown_puzzle_type")]
              /\ pc' = [pc EXCEPT ![r] = "done"]
              /\ loc' = [loc EXCEPT ![r] = BlankLoc]
              /\ UNCHANGED sessions
         ELSE IF ev.error
         THEN /\ resp' = [resp EXCEPT ![r] = ErrorResp("guess", 400, "engine_length_mismatch")]
              /\ pc' = [pc EXCEPT ![r] = "done"]
              /\ loc' = [loc EXCEPT ![r] = BlankLoc]
              /\ UNCHANGED sessions
         ELSE /\ loc' = [loc EXCEPT ![r].attempts_used = used,
                                    ![r].attempt_number = NextAttemptNumber(used),
                                    ![r].feedback = ev.feedback,
                                    ![r].is_correct = ev.is_correct,
                                    ![r].engine = ev.engine]
              /\ pc' = [pc EXCEPT ![r] = "guess_insert"]
              /\ UNCHANGED <<sessions, resp>>
  /\ UNCHANGED <<registry, now, guesses>>

\* Mutant of GuessRow: the feedback list stored as it is, not compacted.
GuessRowUncompacted(r) ==
  [attempt_number |-> loc[r].attempt_number, guess_word |-> loc[r].guess,
   result |-> loc[r].feedback, is_correct |-> loc[r].is_correct,
   engine |-> loc[r].engine]

\* The Guess row the request inserts (Guess.objects.create in submit_guess).
GuessRow(r) ==
  [attempt_number |-> loc[r].attempt_number, guess_word |-> loc[r].guess,
   result |-> FeedbackToCompact(loc[r].feedback), is_correct |-> loc[r].is_correct,
   engine |-> loc[r].engine]

\* Another transaction holds an uncommitted row with the same key: the INSERT
\* waits for it to commit or roll back.
InsertBlocked(r) ==
  \E q \in Requests \ {r} :
     /\ pc[q] = "guess_update"
     /\ loc[q].sid = loc[r].sid
     /\ loc[q].attempt_number = loc[r].attempt_number

\* Mutant of Completing: only the last attempt ends the session.
CompletingOnLastOnly(r) ==
  IsLastAttempt(loc[r].attempt_number, loc[r].session.max_attempts)

\* Whether the guess of request r ends the session (a win or the last attempt).
Completing(r) ==
  loc[r].is_correct \/ IsLastAttempt(loc[r].attempt_number, loc[r].session.max_attempts)

\* submit_guess: entering "with transaction.atomic()" and the INSERT of the
\* Guess row; the row stays uncommitted until the block is left.
GuessInsert(r) ==
  /\ pc[r] = "guess_insert"
  /\ ~InsertBlocked(r)
  /\ IF UniqueViolation(guesses[loc[r].sid], loc[r].attempt_number)
     THEN /\ resp' = [resp EXCEPT ![r] =
                 [ErrorResp("guess", 500, "integrity_error") EXCEPT
                    !.session_id = loc[r].sid, !.attempt_number = loc[r].attempt_number]]
          /\ pc' = [pc EXCEPT ![r] = "done"]
          /\ loc' = [loc EXCEPT ![r] = BlankLoc]
     ELSE /\ pc' = [pc EXCEPT ![r] = "guess_update"]
          /\ UNCHANGED <<resp, loc>>
  /\ UNCHANGED <<registry, now, sessions, guesses>>

\* submit_guess: the rest of the atomic block (total_time_secs on the instance,
\* mark_completed with its UPDATE) and the COMMIT, which makes the inserted
\* Guess row and the session's new columns visible together.
GuessCommit(r) ==
  /\ pc[r] = "guess_update"
  /\ LET sid == loc[r].sid
         s0  == loc[r].session
         s1  == IF Completing(r)
                THEN MarkCompleted(WithTotalTime(s0, now), loc[r].is_correct, now)
                ELSE s0
     IN  /\ guesses' = [guesses EXCEPT ![sid] = Append(@, GuessRow(r))]
         /\ sessions' = IF Completing(r)
                        THEN [sessions EXCEPT ![sid] = SaveCompletion(@, s1)]
                        ELSE sessions
         \* what the handler still reads of its locals after the block
         /\ loc' = [loc EXCEPT ![r] =
               [BlankLoc EXCEPT !.sid = sid, !.attempt_number = loc[r].attempt_number,
                                !.guess = loc[r].guess, !.feedback = loc[r].feedback,
                                !.is_correct = loc[r].is_correct]]
  /\ pc' = [pc EXCEPT ![r] = "guess_refresh"]
  /\ UNCHANGED <<registry, now, resp>>

\* submit_guess: the session's UPDATE inside the atomic block raises (a
\* database error): the block rolls back and the request ends with a 500.
GuessTxFail(r) ==
  /\ pc[r] = "guess_update"
  /\ Completing(r)
  /\ guesses' = [guesses EXCEPT ![loc[r].sid] = RolledBack(@, GuessRow(r))]
  /\ resp' = [resp EXCEPT ![r] =
        [ErrorResp("guess", 500, "db_error") EXCEPT
           !.session_id = loc[r].sid, !.attempt_number = loc[r].attempt_number,
           !.is_correct = loc[r].is_correct]]
  /\ pc' = [pc EXCEPT ![r] = "done"]
  /\ loc' = [loc EXCEPT ![r] = BlankLoc]
  /\ UNCHANGED <<registry, now, sessions>>

\* submit_guess after the atomic block: refresh_from_db, the COUNT of guesses,
\* the score breakdown and the response.
GuessRefresh(r) ==
  /\ pc[r] = "guess_refresh"
  /\ LET sid  == loc[r].sid
         s    == sessions[sid]
         used == AttemptsUsed(sid)
     IN  /\ loc' = [loc EXCEPT ![r] = BlankLoc]
         /\ resp' = [resp EXCEPT ![r] =
              [BlankResp EXCEPT
                 !.kind = "guess", !.http = 200, !.session_id = sid,
                 !.attempt_number = loc[r].attempt_number,
                 !.feedback = loc[r].feedback, !.is_correct = loc[r].is_correct,
                 !.attempts_used = used, !.max_attempts = s.max_attempts,
                 !.status = SessionStatus(s),
                 !.score = ComputeScore(s, used),
                 !.base_score = ComputeBaseScore(s, used),
                 !.hint_penalty = ComputeHintPenalty(s),
                 !.time_bonus = ComputeTimeBonus(s)]]
  /\ pc' = [pc EXCEPT ![r] = "done"]
  /\ UNCHANGED <<registry, now, sessions, guesses>>

(* -------------------------------- hints --------------------------------- *)

\* Mutant of EnsureCanUseHint: the quota test with > in place of >=.
EnsureCanUseHintOffByOne(s) ==
  IF s.is_completed THEN "session_completed"
  ELSE IF s.hints_used > MAX_HINTS_PER_SESSION THEN "hint_quota_exceeded"
  ELSE ""

\* hints._ensure_can_use_hint: the error it raises, "" when it raises none
EnsureCanUseHint(s) ==
  IF s.is_completed THEN "session_completed"
  ELSE IF s.hints_used >= MAX_HINTS_PER_SESSION THEN "hint_quota_exceeded"
  ELSE ""

\* Mutant of IncrementHints: the stored column incremented in the database
\* (hints_used = F("hints_used") + 1), without the cap.
IncrementHintsInDatabase(r) == sessions[loc[r].sid].hints_used + 1

\* hints._increment_hints: the value request r assigns to session.hints_used
\* and saves with update_fields=["hints_used", "updated_at"]
IncrementHints(r) == Min(loc[r].session.hints_used + 1, MAX_HINTS_PER_SESSION)

\* hints._pick_unrevealed_position (random.randrange(0, length)) and
\* hints._first_letter_position_and_value: the indexes a hint may reveal
HintPositions(s, hint_type) ==
  IF hint_type = "reveal_first_letter" THEN {0} ELSE 0..(s.length - 1)

\* Mutant of HintValidate: validate without the is_completed test.
HintValidateAcceptsCompleted(r, sid, hint_type) ==
  /\ FreeSlot(r)
  /\ IF sid > Len(sessions)
     THEN /\ resp' = [resp EXCEPT ![r] = ErrorResp("hint", 400, "session_not_found")]
          /\ pc' = [pc EXCEPT ![r] = "done"]
          /\ UNCHANGED loc
     ELSE /\ loc' = [loc EXCEPT ![r] =
               [BlankLoc EXCEPT !.sid = sid, !.session = sessions[sid],
                                !.hint_type = hint_type]]
          /\ pc' = [pc EXCEPT ![r] = "hint_apply"]
          /\ UNCHANGED resp
  /\ UNCHANGED <<registry, now, sessions, guesses>>

\* HintRequestSerializer.validate: the SELECT of the session.
HintValidate(r, sid, hint_type) ==
  /\ FreeSlot(r)
  /\ IF sid > Len(sessions)
     THEN /\ resp' = [resp EXCEPT ![r] = ErrorResp("hint", 400, "session_not_found")]
          /\ pc' = [pc EXCEPT ![r] = "done"]
          /\ UNCHANGED loc
     ELSE IF sessions[sid].is_completed
     THEN /\ resp' = [resp EXCEPT ![r] = ErrorResp("hint", 400, "already_completed")]
          /\ pc' = [pc EXCEPT ![r] = "done"]
          /\ UNCHANGED loc
     ELSE /\ loc' = [loc EXCEPT ![r] =
               [BlankLoc EXCEPT !.sid = sid, !.session = sessions[sid],
                                !.hint_type = hint_type]]
          /\ pc' = [pc EXCEPT ![r] = "hint_apply"]
          /\ UNCHANGED resp
  /\ UNCHANGED <<registry, now, sessions, guesses>>

\* request_hint: reveal_position / reveal_first_letter on the loaded instance,
\* with the UPDATE of hints_used.
HintApply(r) ==
  /\ pc[r] = "hint_apply"
  /\ LET sid == loc[r].sid
         s   == loc[r].session
     IN  IF EnsureCanUseHint(s) # ""
         THEN /\ resp' = [resp EXCEPT ![r] =
                     [ErrorResp("hint", 400, EnsureCanUseHint(s)) EXCEPT !.session_id = sid]]
              /\ UNCHANGED sessions
         ELSE \E idx \in HintPositions(s, loc[r].hint_type) :
                LET h == IncrementHints(r)
                IN  /\ sessions' = [sessions EXCEPT ![sid].hints_used = h]
                    /\ resp' = [resp EXCEPT ![r] =
                         [BlankResp EXCEPT
                            !.kind = "hint", !.http = 200, !.session_id = sid,
                            !.index = idx, !.letter = s.target[idx + 1],
                            !.remaining = Max(0, MAX_HINTS_PER_SESSION - h)]]
  /\ loc' = [loc EXCEPT ![r] = BlankLoc]
  /\ pc' = [pc EXCEPT ![r] = "done"]
  /\ UNCHANGED <<registry, now, guesses>>

(* ------------------------------ environment ----------------------------- *)

\* The handler returns its Response; the worker is free again.
Respond(r) ==
  /\ pc[r] = "done"
  /\ pc' = [pc EXCEPT ![r] = "idle"]
  /\ loc' = [loc EXCEPT ![r] = BlankLoc]
  /\ resp' = [resp EXCEPT ![r] = BlankResp]
  /\ UNCHANGED <<registry, now, sessions, guesses>>

\* A second passes.  The clock counts from the creation of the first session
\* (the handlers read only differences of timestamps).
Tick ==
  /\ sessions # <<>>
  /\ now < MaxTime
  /\ now' = now + 1
  /\ UNCHANGED <<registry, sessions, guesses, pc, loc, resp>>

StartGameReq(r) ==
  \E wl \in WordLengths, ma \in AttemptChoices, m \in Modes, pt \in PuzzleTypes,
     d \in {1}, tl \in TimeLimits :
       StartGame(r, wl, ma, m, pt, d, tl)

GuessReq(r) == \E sid \in SessionIds, raw \in GuessInputs : GuessValidate(r, sid, raw)

HintReq(r) == \E sid \in SessionIds, ht \in HintTypes : HintValidate(r, sid, ht)

\* The statements that continue a request already being handled.
Step(r) ==
  \/ GuessCount(r)
  \/ GuessInsert(r)
  \/ GuessCommit(r)
  \/ GuessTxFail(r)
  \/ GuessRefresh(r)
  \/ HintApply(r)
  \/ Respond(r)

\* Requests handled concurrently by the workers. The difficulty only lowers
\* max_attempts at start_game, so the concurrent runs start at difficulty 1
\* and take max_attempts over AttemptChoices; the sequential runs below cover
\* the difficulties.
Next ==
  \/ Tick
  \/ \E r \in Requests : StartGameReq(r) \/ GuessReq(r) \/ HintReq(r) \/ Step(r)

Spec == Init /\ [][Next]_vars

\* The max_attempts values a start-game request of the sequential runs asks for.
SeqAttemptChoices == AttemptChoices \cup {DEFAULT_MAX_ATTEMPTS}

SeqStartGameReq(r) ==
  \E wl \in WordLengths, ma \in SeqAttemptChoices, m \in Modes, pt \in PuzzleTypes,
     d \in Difficulties, tl \in TimeLimits :
       StartGame(r, wl, ma, m, pt, d, tl)

\* Requests handled one after the other: a request is taken up only when no
\* other is being handled.
SeqNext ==
  \/ Tick
  \/ \E r \in Requests : Quiet /\ (SeqStartGameReq(r) \/ GuessReq(r) \/ HintReq(r))
  \/ \E r \in Requests : Step(r)

SeqSpec == Init /\ [][SeqNext]_vars

(* ------------------------- scoring, on its own -------------------------- *)
(* _compute_score_breakdown applied to a session row and its guess count,   *)
(* over the values the columns can hold.                                    *)

\* The time_limit_secs and total_time_secs a session row may hold.
ScoreTimeLimits == {None, Some(0), Some(25), Some(60)}
ScoreTotalTimes == {None, Some(0), Some(9), Some(30), Some(70)}

\* The session rows scored: every combination of the columns the score reads.
ScoreSessions ==
  { [BlankSession EXCEPT !.target = <<"a", "b", "b">>, !.length = 3,
                         !.puzzle_type = "classic",
                         !.max_attempts = m, !.is_completed = c, !.is_won = w,
                         !.ended_at = IF c THEN Some(0) ELSE None,
                         !.mode = md, !.hints_used = h,
                         !.time_limit_secs = tl, !.total_time_secs = tt] :
      m \in 1..DEFAULT_MAX_ATTEMPTS, c \in BOOLEAN, w \in BOOLEAN, md \in Modes,
      h \in 0..MAX_HINTS_PER_SESSION, tl \in ScoreTimeLimits, tt \in ScoreTotalTimes }

\* k stored guesses of a session, none of them correct.
ScoreRows(k) ==
  [i \in 1..k |-> [attempt_number |-> i, guess_word |-> <<"b", "a", "b">>,
                   result |-> <<"y", "y", "g">>, is_correct |-> FALSE,
                   engine |-> "classic"]]

ScoreInit ==
  /\ now = 0
  /\ \E s \in ScoreSessions, k \in 0..(DEFAULT_MAX_ATTEMPTS + 1) :
        /\ sessions = <<s>>
        /\ guesses = <<ScoreRows(k)>>
  /\ pc = [r \in Requests |-> IF r = 1 THEN "score" ELSE "idle"]
  /\ loc = [r \in Requests |-> IF r = 1 THEN [BlankLoc EXCEPT !.sid = 1] ELSE BlankLoc]
  /\ resp = [r \in Requests |-> BlankResp]
  /\ registry = InitialRegistry

\* views._compute_score_breakdown with _attempts_used and _session_status,
\* as submit_guess and get_session_detail report them.
ScoreBreakdown(r) ==
  /\ pc[r] = "score"
  /\ LET sid  == loc[r].sid
         s    == sessions[sid]
         used == AttemptsUsed(sid)
     IN  resp' = [resp EXCEPT ![r] =
              [BlankResp EXCEPT
                 !.kind = "score", !.http = 200, !.session_id = sid,
                 !.attempts_used = used, !.max_attempts = s.max_attempts,
                 !.status = SessionStatus(s),
                 !.score = ComputeScore(s, used),
                 !.base_score = ComputeBaseScore(s, used),
                 !.hint_penalty = ComputeHintPenalty(s),
                 !.time_bonus = ComputeTimeBonus(s)]]
  /\ pc' = [pc EXCEPT ![r] = "done"]
  /\ loc' = [loc EXCEPT ![r] = BlankLoc]
  /\ UNCHANGED <<registry, now, sessions, guesses>>

ScoreNext == \E r \in Requests : ScoreBreakdown(r)

ScoreSpec == ScoreInit /\ [][ScoreNext]_vars

(* --------------------- puzzle engines, on their own --------------------- *)
(* engine.evaluate(target, guess) applied to strings as a caller may pass   *)
(* them: words of up to MaxWordLen letters, as they are, padded with        *)
(* blanks, or with a capital first letter.                                  *)

\* The words of exactly n letters.
WordsOfLen(n) == [1..n -> LowerLetters]

\* The words of 1..MaxWordLen letters.
EngineWords == UNION {WordsOfLen(n) : n \in 1..MaxWordLen}

UpperChar(c) == IF c = "a" THEN "A" ELSE IF c = "b" THEN "B" ELSE c

\* The strings that stand for word w.
Spellings(w) ==
  {w, <<" ">> \o w \o <<" ">>, [i \in 1..Len(w) |-> IF i = 1 THEN UpperChar(w[i]) ELSE w[i]]}

EngineInputs == UNION {Spellings(w) : w \in EngineWords}

EngineInit ==
  /\ now = 0
  /\ sessions = <<>>
  /\ guesses = <<>>
  /\ pc = [r \in Requests |-> IF r = 1 THEN "evaluate" ELSE "idle"]
  /\ \E t \in EngineInputs, g \in EngineInputs, pt \in PuzzleTypes :
        loc = [r \in Requests |->
                 IF r = 1
                 THEN [BlankLoc EXCEPT !.session.target = t, !.session.puzzle_type = pt,
                                       !.guess = g]
                 ELSE BlankLoc]
  /\ resp = [r \in Requests |-> BlankResp]
  /\ registry = InitialRegistry

\* engine.evaluate(target, guess) of the engine registered for puzzle_type;
\* a ValueError is reported as an error.
EngineCall(r) ==
  /\ pc[r] = "evaluate"
  /\ LET out == EngineEvaluate(loc[r].session.puzzle_type, loc[r].session.target,
                               loc[r].guess)
     IN  IF out.error
         THEN /\ resp' = [resp EXCEPT ![r] = ErrorResp("evaluate", 500, "value_error")]
              /\ UNCHANGED loc
         ELSE /\ loc' = [loc EXCEPT ![r].feedback = out.feedback,
                                    ![r].is_correct = out.is_correct,
                                    ![r].engine = out.engine]
              /\ resp' = [resp EXCEPT ![r] =
                    [BlankResp EXCEPT !.kind = "evaluate", !.http = 200,
                                      !.feedback = out.feedback,
                                      !.is_correct = out.is_correct]]
  /\ pc' = [pc EXCEPT ![r] = "done"]
  /\ UNCHANGED <<registry, now, sessions, guesses>>

EngineNext == \E r \in Requests : EngineCall(r)

EngineSpec == EngineInit /\ [][EngineNext]_vars

(* ------------------- compact feedback, on its own ----------------------- *)
(* A feedback list stored as the result of a Guess (feedback_to_compact)    *)
(* and read back by get_session_detail.                                     *)

\* The feedback lists of up to MaxWordLen entries.
FeedbackLists ==
  UNION {[1..n -> {"correct", "present", "absent"}] : n \in 0..MaxWordLen}

CompactInit ==
  /\ now = 0
  /\ sessions = <<[BlankSession EXCEPT !.puzzle_type = "classic"]>>
  /\ guesses = << <<>> >>
  /\ pc = [r \in Requests |-> IF r = 1 THEN "compact" ELSE "idle"]
  /\ \E f \in FeedbackLists :
        loc = [r \in Requests |->
                 IF r = 1
                 THEN [BlankLoc EXCEPT !.sid = 1, !.attempt_number = 1, !.feedback = f,
                                       !.engine = "classic"]
                 ELSE BlankLoc]
  /\ resp = [r \in Requests |-> BlankResp]
  /\ registry = InitialRegistry

\* submit_guess: compact = feedback_to_compact(feedback), stored as the
\* result of the Guess row.
CompactStore(r) ==
  /\ pc[r] = "compact"
  /\ guesses' = [guesses EXCEPT ![loc[r].sid] = Append(@, GuessRow(r))]
  /\ pc' = [pc EXCEPT ![r] = "read_back"]
  /\ UNCHANGED <<registry, now, sessions, loc, resp>>

\* get_session_detail: the stored result of the guess expanded to a list.
ReadBack(r) ==
  /\ pc[r] = "read_back"
  /\ resp' = [resp EXCEPT ![r] =
        [BlankResp EXCEPT !.kind = "detail", !.http = 200, !.session_id = loc[r].sid,
                          !.attempt_number = guesses[loc[r].sid][1].attempt_number,
                          !.feedback = ExpandCompact(guesses[loc[r].sid][1].result)]]
  /\ pc' = [pc EXCEPT ![r] = "done"]
  /\ UNCHANGED <<registry, now, sessions, guesses, loc>>

CompactNext == \E r \in Requests : CompactStore(r) \/ ReadBack(r)

CompactSpec == CompactInit /\ [][CompactNext]_vars

(* ---------------------- engine registry, on its own --------------------- *)
(* EngineRegistry.get and EngineRegistry.register called with keys in       *)
(* several spellings; a worker stands for the caller, its locals hold the   *)
(* arguments and the class returned.                                        *)

\* The puzzle_type arguments: spellings of the two registered keys, of a key
\* that is not registered at first, the empty string and a blank one.
RegistryInputs ==
  { KeyClassic, <<" ">> \o KeyClassic \o <<" ">>,
    <<"c", "l", "A", "s", "s", "i", "c">>,
    KeyAnagram, <<"A", "n", "A", "g", "r", "A", "m", " ">>,
    <<"a", "b">>, <<" ", "A", "B">>,
    <<>>, <<" ">> }

\* The engine classes given to register.
EngineClasses == {"ClassicEngine", "AnagramEngine"}

\* EngineRegistry.get(puzzle_type)
RegistryLookup(r, puzzle_type) ==
  /\ FreeSlot(r)
  /\ LET found == RegistryGet(registry, puzzle_type)
     IN  /\ loc' = [loc EXCEPT ![r] =
                  [BlankLoc EXCEPT !.registry_arg = puzzle_type,
                                   !.engine = IF IsNone(found) THEN "" ELSE Get(found)]]
         /\ resp' = [resp EXCEPT ![r] =
                  IF IsNone(found) THEN ErrorResp("lookup", 500, "key_error")
                  ELSE [BlankResp EXCEPT !.kind = "lookup", !.http = 200]]
  /\ pc' = [pc EXCEPT ![r] = "done"]
  /\ UNCHANGED <<now, sessions, guesses, registry>>

\* EngineRegistry.register(puzzle_type, engine_cls)
RegistryRegisterCall(r, puzzle_type, engine_cls) ==
  /\ FreeSlot(r)
  /\ registry' = RegistryRegister(registry, puzzle_type, engine_cls)
  /\ loc' = [loc EXCEPT ![r] =
          [BlankLoc EXCEPT !.registry_arg = puzzle_type, !.engine = engine_cls]]
  /\ resp' = [resp EXCEPT ![r] =
          IF RegistryKey(puzzle_type) = <<>> THEN ErrorResp("register", 500, "value_error")
          ELSE [BlankResp EXCEPT !.kind = "register", !.http = 200]]
  /\ pc' = [pc EXCEPT ![r] = "done"]
  /\ UNCHANGED <<now, sessions, guesses>>

RegistryNext ==
  \E r \in Requests :
     \/ \E k \in RegistryInputs : RegistryLookup(r, k)
     \/ \E k \in RegistryInputs, e \in EngineClasses : RegistryRegisterCall(r, k, e)
     \/ Respond(r)

RegistrySpec == Init /\ [][RegistryNext]_vars

(* ------------------- sessions stored by other means --------------------- *)
(* GameSession and Guess rows as the admin site or the ORM can store them:  *)
(* a session in progress whose puzzle_type is the column's default "word",  *)
(* or that holds max_attempts guesses without being completed.  Requests    *)
(* are handled one after the other.                                         *)

\* The puzzle_type values of the stored sessions: those start_game stores
\* and the default of the column.
StoredPuzzleTypes == PuzzleTypes \cup {BlankSession.puzzle_type}

StoredSessions ==
  { [BlankSession EXCEPT !.target = <<"a", "b", "b">>, !.length = 3,
                         !.max_attempts = m, !.mode = md, !.puzzle_type = pt,
                         !.time_limit_secs =
                            IF md = "timed" THEN Some(DEFAULT_TIME_LIMIT) ELSE None] :
      m \in AttemptChoices, md \in Modes, pt \in StoredPuzzleTypes }

\* k stored guesses of such a session, none of them correct.
StoredRows(k) ==
  [i \in 1..k |-> [attempt_number |-> i, guess_word |-> <<"a", "a", "b">>,
                   result |-> <<"g", "b", "g">>, is_correct |-> FALSE,
                   engine |-> "classic"]]

StoredInit ==
  /\ now = 0
  /\ \E s \in StoredSessions, k \in 0..MaxAttemptsRequested :
        /\ k <= s.max_attempts
        /\ sessions = <<s>>
        /\ guesses = <<StoredRows(k)>>
  /\ pc = [r \in Requests |-> "idle"]
  /\ loc = [r \in Requests |-> BlankLoc]
  /\ resp = [r \in Requests |-> BlankResp]
  /\ registry = InitialRegistry

StoredNext ==
  \/ Tick
  \/ \E r \in Requests : Quiet /\ (GuessReq(r) \/ HintReq(r))
  \/ \E r \in Requests : Step(r)

StoredSpec == StoredInit /\ [][StoredNext]_vars

(* ------------------------------ leaderboard ----------------------------- *)
(* get_leaderboard over a table of three sessions in every combination of   *)
(* the rows below.                                                          *)

\* Mutant of LeaderboardBefore: the lower score first.
LeaderboardBeforeAscending(a, b) ==
  \/ a.score < b.score
  \/ a.score = b.score /\ a.ended_at < b.ended_at

\* entries.sort(key=lambda e: (-e["score"], e["ended_at"])): entry a has a
\* smaller key than entry b
LeaderboardBefore(a, b) ==
  \/ a.score > b.score
  \/ a.score = b.score /\ a.ended_at < b.ended_at

\* list.sort is stable: entry e goes before the first entry it has a smaller
\* key than, after the entries of equal key.
InsertEntry(sorted, e) ==
  LET later == {i \in 1..Len(sorted) : LeaderboardBefore(e, sorted[i])}
      p     == IF later = {} THEN Len(sorted) + 1
               ELSE CHOOSE i \in later : \A j \in later : i <= j
  IN  SubSeq(sorted, 1, p - 1) \o <<e>> \o SubSeq(sorted, p, Len(sorted))

RECURSIVE SortEntries(_)
SortEntries(entries) ==
  IF entries = <<>> THEN <<>>
  ELSE InsertEntry(SortEntries(SubSeq(entries, 1, Len(entries) - 1)),
                   entries[Len(entries)])

\* The entry get_leaderboard builds for session sid.
LeaderboardEntry(sid) ==
  LET s == sessions[sid]
  IN  [session_id |-> sid, attempts_used |-> AttemptsUsed(sid),
       max_attempts |-> s.max_attempts, score |-> ComputeScore(s, AttemptsUsed(sid)),
       ended_at |-> IF IsNone(s.ended_at) THEN now ELSE Get(s.ended_at),
       mode |-> s.mode, puzzle_type |-> s.puzzle_type, hints_used |-> s.hints_used]

\* GameSession.objects.filter(is_completed=True) with the optional filters,
\* in the order of Meta.ordering ("-created_at"): from session id sid down.
RECURSIVE LeaderboardQuery(_, _, _)
LeaderboardQuery(sid, mode, puzzle_type) ==
  IF sid = 0 THEN <<>>
  ELSE IF /\ sessions[sid].is_completed
          /\ (mode = "" \/ sessions[sid].mode = mode)
          /\ (puzzle_type = "" \/ sessions[sid].puzzle_type = puzzle_type)
       THEN <<LeaderboardEntry(sid)>> \o LeaderboardQuery(sid - 1, mode, puzzle_type)
       ELSE LeaderboardQuery(sid - 1, mode, puzzle_type)

\* views.get_leaderboard; "" stands for a filter that is not given
GetLeaderboard(r, mode, puzzle_type) ==
  /\ FreeSlot(r)
  /\ loc' = [loc EXCEPT ![r] = [BlankLoc EXCEPT !.mode = mode, !.puzzle_type = puzzle_type]]
  /\ resp' = [resp EXCEPT ![r] =
        [BlankResp EXCEPT
           !.kind = "leaderboard", !.http = 200,
           !.entries = SortEntries(LeaderboardQuery(Len(sessions), mode, puzzle_type))]]
  /\ pc' = [pc EXCEPT ![r] = "done"]
  /\ UNCHANGED <<registry, now, sessions, guesses>>

\* The rows of the table: (is_completed, is_won, max_attempts, guesses,
\* ended_at) of a session in progress, of sessions won at the second and at
\* the fourth of six attempts, and of a lost one.
LeaderboardOutcomes ==
  { <<FALSE, FALSE, 6, 2, None>>,
    <<TRUE, TRUE, 6, 2, Some(0)>>, <<TRUE, TRUE, 6, 2, Some(1)>>,
    <<TRUE, TRUE, 6, 4, Some(0)>>, <<TRUE, TRUE, 6, 4, Some(1)>>,
    <<TRUE, FALSE, 2, 2, Some(0)>>, <<TRUE, FALSE, 2, 2, Some(1)>> }

\* The mode and puzzle_type of the rows.
LeaderboardKinds ==
  { <<"classic", "classic">>, <<"timed", "classic">>, <<"classic", "anagram">> }

\* The session row of outcome o and kind k.
LeaderboardSession(o, k) ==
  [BlankSession EXCEPT !.target = <<"a", "b", "b">>, !.length = 3,
                       !.is_completed = o[1], !.is_won = o[2],
                       !.max_attempts = o[3], !.ended_at = o[5],
                       !.mode = k[1], !.puzzle_type = k[2],
                       !.time_limit_secs =
                          IF k[1] = "timed" THEN Some(DEFAULT_TIME_LIMIT) ELSE None]

\* The guesses of that row: wrong ones, the last one correct if it is won.
LeaderboardRows(o, k) ==
  [i \in 1..o[4] |->
     IF o[2] /\ i = o[4]
     THEN [attempt_number |-> i, guess_word |-> <<"a", "b", "b">>,
           result |-> <<"g", "g", "g">>, is_correct |-> TRUE, engine |-> k[2]]
     ELSE [attempt_number |-> i, guess_word |-> <<"a", "a", "b">>,
           result |-> <<"g", "b", "g">>, is_correct |-> FALSE, engine |-> k[2]]]

\* The filters of the requests: none, a mode or puzzle type some rows have,
\* and a mode no row has.
ModeFilters == {"", "classic", "timed", "daily"}
PuzzleTypeFilters == {"", "classic", "anagram"}

LeaderboardInit ==
  /\ now = 2
  /\ \E o \in [1..3 -> LeaderboardOutcomes], k \in [1..3 -> LeaderboardKinds] :
        /\ sessions = [i \in 1..3 |-> LeaderboardSession(o[i], k[i])]
        /\ guesses = [i \in 1..3 |-> LeaderboardRows(o[i], k[i])]
  /\ pc = [r \in Requests |-> "idle"]
  /\ loc = [r \in Requests |-> BlankLoc]
  /\ resp = [r \in Requests |-> BlankResp]
  /\ registry = InitialRegistry

\* The table is only read: the requests are taken one after the other.
LeaderboardNext ==
  \E r \in Requests :
     \/ Quiet /\ \E m \in ModeFilters, pt \in PuzzleTypeFilters : GetLeaderboard(r, m, pt)
     \/ Respond(r)

LeaderboardSpec == LeaderboardInit /\ [][LeaderboardNext]_vars


(* ---------------------- the whole range of start-game ------------------- *)
(* Requests handled one after the other on a session started with any       *)
(* max_attempts and difficulty the serializer accepts.                      *)

\* StartGameRequestSerializer: max_attempts and difficulty, min_value=1,
\* max_value=10
RequestedAttempts == 1..10
RequestedDifficulties == 1..10

AdjustStartGameReq(r) ==
  \E ma \in RequestedAttempts, d \in RequestedDifficulties :
     StartGame(r, 3, ma, "classic", "classic", d, None)

\* Guesses on the session: the target and a wrong dictionary word.
AdjustGuessReq(r) ==
  \E raw \in { <<"a", "b", "b">>, <<"a", "a", "b">> } : GuessValidate(r, 1, raw)

AdjustHintReq(r) == HintValidate(r, 1, "reveal_first_letter")

AdjustNext ==
  \/ \E r \in Requests :
        Quiet /\ (AdjustStartGameReq(r) \/ AdjustGuessReq(r) \/ AdjustHintReq(r))
  \/ \E r \in Requests : Step(r)

AdjustSpec == Init /\ [][AdjustNext]_vars

(* ------------------------------- fairness ------------------------------- *)
(* Concurrent guess and hint requests on one classic-mode session, under    *)
(* fair scheduling.                                                         *)

\* The guesses submitted: the target, a wrong dictionary word, and a word
\* that is not in the dictionary.
LiveGuessInputs == { <<"a", "b", "b">>, <<"a", "a", "b">>, <<"b", "b", "b">> }

LiveStartGameReq(r) ==
  \E ma \in AttemptChoices, pt \in PuzzleTypes :
     StartGame(r, 3, ma, "classic", pt, 1, None)

LiveGuessReq(r) == \E sid \in {1}, raw \in LiveGuessInputs : GuessValidate(r, sid, raw)

LiveHintReq(r) == \E sid \in {1} : HintValidate(r, sid, "reveal_first_letter")

\* A guess request that passes validation is taken up.
AcceptedGuessReq == \E r \in Requests : LiveGuessReq(r) /\ pc'[r] = "guess_count"

LiveNext ==
  \E r \in Requests : LiveStartGameReq(r) \/ LiveGuessReq(r) \/ LiveHintReq(r) \/ Step(r)

\* A handler that has started runs on to its response, the session's UPDATE
\* does not fail forever, and valid guesses keep being submitted while they
\* are accepted.
Fairness ==
  /\ \A r \in Requests : WF_vars(Step(r))
  /\ \A r \in Requests : SF_vars(GuessCommit(r))
  /\ SF_vars(AcceptedGuessReq)

LiveSpec == Init /\ [][LiveNext]_vars /\ Fairness

(* ----------------------- sessions with a time limit --------------------- *)
(* Requests handled one after the other on a session that may carry a time  *)
(* limit, while the clock runs past the limit.                              *)

\* The time_limit_secs values of the start-game requests: none (the default
\* of 60 applies to a timed session) and the smallest the serializer accepts.
TimedTimeLimits == {None, Some(MIN_TIME_LIMIT)}

TimedStartGameReq(r) ==
  \E ma \in AttemptChoices, m \in Modes, pt \in PuzzleTypes, tl \in TimedTimeLimits :
     StartGame(r, 3, ma, m, pt, 1, tl)

\* Time passes until the limit of a session has just elapsed.
LimitElapses ==
  /\ \E sid \in 1..Len(sessions) :
        /\ ~IsNone(sessions[sid].time_limit_secs)
        /\ ~PastLimit(sessions[sid], now)
        /\ now' = sessions[sid].started_at + Get(sessions[sid].time_limit_secs) + 1
  /\ UNCHANGED <<registry, sessions, guesses, pc, loc, resp>>

TimedNext ==
  \/ Tick
  \/ LimitElapses
  \/ \E r \in Requests : Quiet /\ (TimedStartGameReq(r) \/ GuessReq(r) \/ HintReq(r))
  \/ \E r \in Requests : Step(r)

TimedSpec == Init /\ [][TimedNext]_vars

(* ------------------------------------------------------------------------ *)
(* Properties                                                               *)
(* ------------------------------------------------------------------------ *)

Sids == 1..Len(sessions)

\* The session's stored guesses are all wrong.
AllWrong(sid) == \A i \in 1..Len(guesses[sid]) : ~guesses[sid][i].is_correct

\* A stored guess that ends its session: a correct one, or the max_attempts-th.
FinalGuess(sid, g) == g.is_correct \/ g.attempt_number >= sessions[sid].max_attempts

\* The commit of request r's guess is the step being taken.
CommitStep(r) == pc[r] = "guess_update" /\ pc'[r] = "guess_refresh"

\* A request whose guess the engine found correct has passed the attempts
\* check with k guesses stored: it holds attempt number k+1, that number is
\* free, and k < max_attempts.
C1_CorrectGuessAccepted ==
  \A r \in Requests :
     (pc[r] \in {"guess_insert", "guess_update"} /\ loc[r].is_correct) =>
        /\ loc[r].attempt_number = Len(guesses[loc[r].sid]) + 1
        /\ Len(guesses[loc[r].sid]) < sessions[loc[r].sid].max_attempts
        /\ ~UniqueViolation(guesses[loc[r].sid], loc[r].attempt_number)

\* The commit of a correct guess appends the row numbered k+1 and stores WON.
C1_CorrectGuessCommit ==
  \A r \in Requests :
     (CommitStep(r) /\ loc[r].is_correct) =>
        LET sid == loc[r].sid
            k   == Len(guesses[sid])
        IN  /\ Len(guesses'[sid]) = k + 1
            /\ SubSeq(guesses'[sid], 1, k) = guesses[sid]
            /\ guesses'[sid][k + 1].attempt_number = k + 1
            /\ guesses'[sid][k + 1].is_correct
            /\ guesses'[sid][k + 1].guess_word = loc[r].guess
            /\ sessions'[sid].is_completed
            /\ sessions'[sid].is_won
            /\ ~IsNone(sessions'[sid].ended_at)

\* Five wrong guesses then a correct one, with max_attempts = 6.
C1_Scenario(sid) ==
  /\ sessions[sid].max_attempts = DEFAULT_MAX_ATTEMPTS
  /\ Len(guesses[sid]) = DEFAULT_MAX_ATTEMPTS
  /\ \A i \in 1..(DEFAULT_MAX_ATTEMPTS - 1) : ~guesses[sid][i].is_correct
  /\ guesses[sid][DEFAULT_MAX_ATTEMPTS].is_correct

C1_ScenarioWon ==
  \A sid \in Sids :
     C1_Scenario(sid) =>
        /\ SessionStatus(sessions[sid]) = "WON"
        /\ AttemptsUsed(sid) = DEFAULT_MAX_ATTEMPTS
        /\ guesses[sid][DEFAULT_MAX_ATTEMPTS].attempt_number = DEFAULT_MAX_ATTEMPTS

\* C1: requests handled one after the other: a correct guess on an in-progress
\* session with k < max_attempts guesses is recorded with attempt_number k+1
\* and moves the session to WON (is_completed, is_won, ended_at set); with
\* max_attempts = 6, five wrong guesses and then a correct one end in WON with
\* attempts_used = 6.
C1_CorrectGuessWins ==
  /\ [](C1_CorrectGuessAccepted /\ C1_ScenarioWon)
  /\ [][C1_CorrectGuessCommit]_vars

C1_Witness == \E sid \in Sids : C1_Scenario(sid) /\ sessions[sid].is_won

\* C2: while all m = max_attempts guesses submitted so far are wrong, the
\* session is IN_PROGRESS with fewer than m of them stored and LOST (completed,
\* not won) as soon as the m-th is stored.
C2_WrongGuessesLose ==
  \A sid \in Sids :
     AllWrong(sid) =>
        /\ Len(guesses[sid]) < sessions[sid].max_attempts
              => SessionStatus(sessions[sid]) = "IN_PROGRESS"
        /\ Len(guesses[sid]) = sessions[sid].max_attempts
              => (sessions[sid].is_completed /\ ~sessions[sid].is_won)

C2_Witness ==
  \E sid \in Sids :
     /\ sessions[sid].max_attempts >= 2
     /\ AllWrong(sid)
     /\ Len(guesses[sid]) = sessions[sid].max_attempts
     /\ SessionStatus(sessions[sid]) = "LOST"

\* C3: WON and LOST are terminal: once is_completed is stored, no step of any
\* request changes is_completed, is_won or ended_at.
C3_CompletionIsTerminal ==
  [][\A sid \in Sids :
        sessions[sid].is_completed =>
           /\ sessions'[sid].is_completed
           /\ sessions'[sid].is_won = sessions[sid].is_won
           /\ sessions'[sid].ended_at = sessions[sid].ended_at]_vars

\* C4: two requests in flight for one session never hold the same
\* attempt_number, and no request meets the duplicate-key integrity error.
C4_NoDuplicateAttemptNumber ==
  /\ \A r, q \in Requests :
        (/\ r # q
         /\ pc[r] \in {"guess_insert", "guess_update"}
         /\ pc[q] \in {"guess_insert", "guess_update"}
         /\ loc[r].sid = loc[q].sid)
        => loc[r].attempt_number # loc[q].attempt_number
  /\ \A r \in Requests : resp[r].error # "integrity_error"

\* C5: the attempt numbers of a session's k stored guesses are exactly 1..k,
\* each once.
C5_AttemptNumbersContiguous ==
  \A sid \in Sids :
     LET rows == guesses[sid]
     IN  /\ {rows[i].attempt_number : i \in 1..Len(rows)} = 1..Len(rows)
         /\ \A i, j \in 1..Len(rows) :
               rows[i].attempt_number = rows[j].attempt_number => i = j

\* Two guesses stored while a concurrent request lost the race for a number.
C5_Witness ==
  \E sid \in Sids :
     /\ Len(guesses[sid]) = 2
     /\ \E r \in Requests : resp[r].error = "integrity_error" /\ resp[r].session_id = sid

\* C6: a session never stores more than max_attempts guesses.
C6_GuessesWithinMaxAttempts ==
  \A sid \in Sids : Len(guesses[sid]) <= sessions[sid].max_attempts

\* The budget is used up and a concurrent request was turned away for it.
C6_Witness ==
  \E sid \in Sids :
     /\ Len(guesses[sid]) = sessions[sid].max_attempts
     /\ \E r \in Requests :
           resp[r].error = "no_attempts_remaining" /\ resp[r].session_id = sid

\* C7: is_won implies is_completed, and ended_at is set iff is_completed.
C7_CompletionFlagsConsistent ==
  \A sid \in Sids :
     /\ sessions[sid].is_won => sessions[sid].is_completed
     /\ ~IsNone(sessions[sid].ended_at) <=> sessions[sid].is_completed

C7_Witness ==
  \E sid \in Sids :
     /\ sessions[sid].is_completed /\ sessions[sid].is_won
     /\ ~IsNone(sessions[sid].ended_at)
     /\ sessions[sid].hints_used > 0

\* C8: the stored state never has a final guess (correct, or the
\* max_attempts-th) with the session still in progress, nor a completed
\* session without a final guess: the guess and the transition it causes are
\* stored together, or, when the session's update fails, not at all.
C8_GuessAndTransitionAtomic ==
  \A sid \in Sids :
     sessions[sid].is_completed <=>
        \E i \in 1..Len(guesses[sid]) : FinalGuess(sid, guesses[sid][i])

\* The update of a completing guess failed: neither the guess nor the
\* transition is stored.
C8_Witness ==
  \E r \in Requests :
     /\ resp[r].error = "db_error"
     /\ resp[r].is_correct
     /\ ~sessions[resp[r].session_id].is_completed
     /\ Len(guesses[resp[r].session_id]) = resp[r].attempt_number - 1

\* C9: the commit of a guess that completes a timed session with
\* total_time_secs unset stores total_time_secs = now - started_at.
C9_TimedCompletionStoresTotalTime ==
  [][\A r \in Requests :
        (/\ CommitStep(r)
         /\ Completing(r)
         /\ sessions[loc[r].sid].mode = "timed"
         /\ IsNone(sessions[loc[r].sid].total_time_secs))
        => sessions'[loc[r].sid].total_time_secs
              = Some(now - sessions[loc[r].sid].started_at)]_vars

\* C10: a session's stored hints_used is within 0..MAX_HINTS_PER_SESSION.
C10_HintsWithinCap ==
  \A sid \in Sids :
     sessions[sid].hints_used \in 0..MAX_HINTS_PER_SESSION

\* The cap is reached while two more hint requests are in flight.
C10_Witness ==
  \E sid \in Sids :
     /\ sessions[sid].hints_used = MAX_HINTS_PER_SESSION
     /\ \E r, q \in Requests :
           /\ r # q
           /\ pc[r] = "hint_apply" /\ loc[r].sid = sid
           /\ resp[q].kind = "hint" /\ resp[q].http = 200 /\ resp[q].session_id = sid

\* The step in which request r's hint is applied or refused by hints.py.
HintStep(r) == pc[r] = "hint_apply" /\ pc'[r] = "done"

\* C11: with requests handled one after the other, a session starts with
\* hints_used = 0; a hint request on a session with h < 2 hints used succeeds,
\* stores hints_used = h + 1 and reports remaining = 2 - (h + 1) (1, then 0);
\* a hint request on a session with 2 hints used fails with the quota error
\* and leaves hints_used at 2.
C11_HintQuota ==
  [][/\ Len(sessions') > Len(sessions)
          => sessions'[Len(sessions')].hints_used = 0
     /\ \A r \in Requests :
           HintStep(r) =>
             LET sid == loc[r].sid
                 h   == sessions[sid].hints_used
             IN  IF h < MAX_HINTS_PER_SESSION
                 THEN /\ resp'[r].http = 200
                      /\ sessions'[sid].hints_used = h + 1
                      /\ resp'[r].remaining = MAX_HINTS_PER_SESSION - (h + 1)
                      /\ sessions'[sid] = [sessions[sid] EXCEPT !.hints_used = h + 1]
                 ELSE /\ resp'[r].http = 400
                      /\ resp'[r].error = "hint_quota_exceeded"
                      /\ sessions'[sid] = sessions[sid]]_vars

\* A third hint request has been refused on a session with two hints used.
C11_Witness ==
  \E r \in Requests, sid \in Sids :
     /\ resp[r].kind = "hint" /\ resp[r].error = "hint_quota_exceeded"
     /\ resp[r].session_id = sid
     /\ sessions[sid].hints_used = MAX_HINTS_PER_SESSION
     /\ ~sessions[sid].is_completed

\* C12: under any interleaving, a hint request that succeeds raises the
\* stored hints_used of its session by exactly 1.
C12_HintIncrementAtomic ==
  [][\A r \in Requests :
        (HintStep(r) /\ resp'[r].http = 200)
        => sessions'[loc[r].sid].hints_used = sessions[loc[r].sid].hints_used + 1]_vars

\* The step in which worker r takes up a hint request that names a session.
HintRequestTaken(r) ==
  /\ pc[r] = "idle"
  /\ \/ pc'[r] = "hint_apply"
     \/ resp'[r].kind = "hint" /\ resp'[r].error # "session_not_found"

\* C13: a hint request taken up when its session is WON or LOST is refused
\* with an error (400, session already completed) and changes neither the
\* session (hints_used, status) nor its guesses.
C13_HintOnCompletedRefused ==
  [][\A r \in Requests :
        (/\ HintRequestTaken(r)
         /\ Sids # {}
         /\ \A sid \in Sids : sessions[sid].is_completed)
        => /\ pc'[r] = "done"
           /\ resp'[r].http = 400
           /\ resp'[r].error = "already_completed"
           /\ sessions' = sessions
           /\ guesses' = guesses]_vars

\* A hint request has been refused on a completed session that has guesses.
C13_Witness ==
  \E r \in Requests, sid \in Sids :
     /\ resp[r].kind = "hint" /\ resp[r].error = "already_completed"
     /\ sessions[sid].is_completed
     /\ guesses[sid] # <<>>

\* The score breakdown of request r is that of session 1 as it stands.
Scored(r) == resp[r].kind = "score"

\* C14: the base score of a session with k guesses and max_attempts = m is
\* max(m - k + 1, 1) if it is WON, 0 if it is LOST and max(m - k, 0) while it
\* is IN_PROGRESS; a win on attempt k <= m scores m - k + 1 and a win on the
\* last attempt scores 1.
C14_BaseScore ==
  \A r \in Requests :
     Scored(r) =>
       LET s == sessions[1]
           k == Len(guesses[1])
           m == s.max_attempts
           b == resp[r].base_score
       IN  /\ (s.is_completed /\ s.is_won) => b = Max(m - k + 1, 1)
           /\ (s.is_completed /\ ~s.is_won) => b = 0
           /\ ~s.is_completed => b = Max(m - k, 0)
           /\ (s.is_completed /\ s.is_won /\ k <= m) => b = m - k + 1
           /\ (s.is_completed /\ s.is_won /\ k = m) => b = 1

\* A win on the last attempt of a session with several attempts scores 1.
C14_Witness ==
  \E r \in Requests :
     /\ Scored(r)
     /\ resp[r].status = "WON"
     /\ sessions[1].max_attempts > 1
     /\ Len(guesses[1]) = sessions[1].max_attempts
     /\ resp[r].base_score = 1

\* C15: the time bonus is 0 when the mode is not timed or time_limit_secs or
\* total_time_secs is unset; otherwise it is
\* floor(max(time_limit_secs - total_time_secs, 0) / 10): never negative, and
\* 0 when the limit was exceeded.
C15_TimeBonus ==
  \A r \in Requests :
     Scored(r) =>
       LET s  == sessions[1]
           tb == resp[r].time_bonus
       IN  /\ tb >= 0
           /\ (s.mode # "timed" \/ IsNone(s.time_limit_secs) \/ IsNone(s.total_time_secs))
                 => tb = 0
           /\ (s.mode = "timed" /\ ~IsNone(s.time_limit_secs) /\ ~IsNone(s.total_time_secs))
                 => LET left == Max(Get(s.time_limit_secs) - Get(s.total_time_secs), 0)
                    IN  /\ 10 * tb <= left
                        /\ left < 10 * (tb + 1)
                        /\ (Get(s.total_time_secs) > Get(s.time_limit_secs) => tb = 0)

\* A timed session that exceeded its limit has been given a bonus of 0.
C15_Witness ==
  \E r \in Requests :
     /\ Scored(r)
     /\ sessions[1].mode = "timed"
     /\ ~IsNone(sessions[1].time_limit_secs) /\ ~IsNone(sessions[1].total_time_secs)
     /\ Get(sessions[1].total_time_secs) > Get(sessions[1].time_limit_secs)
     /\ resp[r].time_bonus = 0

\* A timed session within its limit has been given a positive bonus.
C15_WitnessBonus ==
  \E r \in Requests :
     /\ Scored(r)
     /\ sessions[1].mode = "timed"
     /\ resp[r].time_bonus > 0

\* C16: the reported score is max(base + time bonus - hint penalty, 0) with
\* hint penalty = hints_used; it is never negative, and a session with h > 0
\* hints scores exactly 1 less than the same session with h - 1 hints would,
\* when that score is positive.
C16_FinalScore ==
  \A r \in Requests :
     Scored(r) =>
       LET s == sessions[1]
           k == Len(guesses[1])
           one_less == [s EXCEPT !.hints_used = s.hints_used - 1]
       IN  /\ resp[r].hint_penalty = s.hints_used
           /\ resp[r].score
                 = Max(resp[r].base_score + resp[r].time_bonus - resp[r].hint_penalty, 0)
           /\ resp[r].score >= 0
           /\ (s.hints_used > 0 /\ ComputeScore(one_less, k) > 0)
                 => resp[r].score = ComputeScore(one_less, k) - 1

\* The hints of a session outweigh its base score and bonus: the score is 0.
C16_Witness ==
  \E r \in Requests :
     /\ Scored(r)
     /\ resp[r].base_score + resp[r].time_bonus < resp[r].hint_penalty
     /\ resp[r].score = 0

\* Request r holds the outcome of engine.evaluate on its target and guess.
Evaluated(r) == resp[r].kind = "evaluate" /\ resp[r].http = 200

\* The strings the engine of request r compared: trimmed and lowercased.
TargetN(r) == Lower(Strip(loc[r].session.target))
GuessN(r) == Lower(Strip(loc[r].guess))

\* The positions of the guess of request r that hold letter c.
Holding(r, c) == {i \in 1..Len(GuessN(r)) : GuessN(r)[i] = c}

\* The positions where guess and target of request r hold the same letter.
Matched(r) == {i \in 1..Len(GuessN(r)) : GuessN(r)[i] = TargetN(r)[i]}

\* C17: for equal-length target and guess the feedback has len(target)
\* entries, and for every letter c the positions of the guess that hold c and
\* are marked correct or present are no more than the occurrences of c in the
\* target.
C17_FeedbackLengthAndCounts ==
  \A r \in Requests :
     Evaluated(r) =>
       /\ Len(loc[r].feedback) = Len(TargetN(r))
       /\ \A c \in LowerLetters :
             Cardinality({i \in Holding(r, c) : loc[r].feedback[i] \in {"correct", "present"}})
               <= Cardinality({j \in 1..Len(TargetN(r)) : TargetN(r)[j] = c})

\* A guess holds a letter more often than the target: one of them is absent.
C17_Witness ==
  \E r \in Requests, c \in LowerLetters :
     /\ Evaluated(r)
     /\ Cardinality(Holding(r, c))
           > Cardinality({j \in 1..Len(TargetN(r)) : TargetN(r)[j] = c})
     /\ \E i, j \in Holding(r, c) :
           loc[r].feedback[i] \in {"correct", "present"} /\ loc[r].feedback[j] = "absent"

\* C18: position i is correct iff guess[i] = target[i]; among the positions
\* of the guess that hold c and are not correct, the leftmost n are present
\* and the later ones absent, n being the smaller of their number and the
\* number of occurrences of c in the target at positions not matched exactly.
C18_TwoPassRule ==
  \A r \in Requests :
     Evaluated(r) =>
       \A i \in 1..Len(GuessN(r)) :
          LET c      == GuessN(r)[i]
              others == Holding(r, c) \ Matched(r)
              free   == {j \in 1..Len(TargetN(r)) : TargetN(r)[j] = c} \ Matched(r)
              n      == Min(Cardinality(others), Cardinality(free))
              before == Cardinality({j \in others : j < i})
          IN  /\ (loc[r].feedback[i] = "correct") <=> (i \in Matched(r))
              /\ i \notin Matched(r)
                   => loc[r].feedback[i] = (IF before < n THEN "present" ELSE "absent")

\* Of two unmatched positions holding the same letter, the left one is
\* present and the right one absent.
C18_Witness ==
  \E r \in Requests :
     /\ Evaluated(r)
     /\ \E i, j \in 1..Len(GuessN(r)) :
           /\ i < j
           /\ GuessN(r)[i] = GuessN(r)[j]
           /\ loc[r].feedback[i] = "present"
           /\ loc[r].feedback[j] = "absent"

\* C19: for the Classic engine and equal-length inputs, is_correct holds iff
\* the trimmed, lowercased guess equals the trimmed, lowercased target, which
\* holds iff every feedback entry is correct; evaluate(t, t) is all correct
\* with is_correct true.
C19_ClassicCorrect ==
  \A r \in Requests :
     (Evaluated(r) /\ loc[r].engine = "classic") =>
        LET all_correct == \A i \in 1..Len(loc[r].feedback) : loc[r].feedback[i] = "correct"
        IN  /\ loc[r].is_correct <=> (GuessN(r) = TargetN(r))
            /\ (GuessN(r) = TargetN(r)) <=> all_correct
            /\ loc[r].guess = loc[r].session.target => (loc[r].is_correct /\ all_correct)

\* The Classic engine found a guess correct that is spelled differently from
\* its target.
C19_Witness ==
  \E r \in Requests :
     /\ Evaluated(r) /\ loc[r].engine = "classic"
     /\ loc[r].is_correct
     /\ loc[r].guess # loc[r].session.target
     /\ Len(GuessN(r)) = MaxWordLen

\* C20: for the Anagram engine and equal-length inputs, is_correct holds iff
\* the letters of the guess are a rearrangement of the letters of the target,
\* whatever the feedback is, and the feedback is the one the Classic engine
\* returns for the same inputs.
C20_AnagramCorrect ==
  \A r \in Requests :
     (Evaluated(r) /\ loc[r].engine = "anagram") =>
        LET n == Len(TargetN(r))
            rearranged ==
              \E p \in [1..n -> 1..n] :
                 /\ \A i, j \in 1..n : p[i] = p[j] => i = j
                 /\ \A i \in 1..n : GuessN(r)[p[i]] = TargetN(r)[i]
        IN  /\ loc[r].is_correct <=> rearranged
            /\ loc[r].feedback
                 = ClassicEvaluate(loc[r].session.target, loc[r].guess).feedback

\* The Anagram engine found correct a guess that matches its target at no
\* position: every entry of the feedback is present.
C20_Witness ==
  \E r \in Requests :
     /\ Evaluated(r) /\ loc[r].engine = "anagram"
     /\ loc[r].is_correct
     /\ Matched(r) = {}
     /\ \A i \in 1..Len(loc[r].feedback) : loc[r].feedback[i] = "present"

\* Request r holds the answer of engine.evaluate: an outcome or the error.
EngineAnswered(r) == resp[r].kind = "evaluate"

\* C21: either engine fails with the length-mismatch error, and returns no
\* feedback, exactly when target and guess differ in length after trimming
\* and lowercasing; spellings of equal-length words are evaluated normally.
C21_LengthMismatch ==
  \A r \in Requests :
     EngineAnswered(r) =>
       /\ (resp[r].error = "value_error") <=> (Len(TargetN(r)) # Len(GuessN(r)))
       /\ resp[r].error = "value_error"
            => (resp[r].http # 200 /\ resp[r].feedback = <<>> /\ loc[r].feedback = <<>>)
       /\ Len(TargetN(r)) = Len(GuessN(r))
            => (/\ resp[r].http = 200 /\ resp[r].error = ""
                /\ Len(resp[r].feedback) = Len(TargetN(r)))

\* An engine refused a guess that is shorter than the target once trimmed,
\* though the two strings are equally long as given.
C21_Witness ==
  \E r \in Requests :
     /\ EngineAnswered(r)
     /\ resp[r].error = "value_error"
     /\ Len(loc[r].guess) = Len(loc[r].session.target)
     /\ Len(GuessN(r)) < Len(TargetN(r))

\* An engine evaluated inputs of different lengths as given that are equally
\* long once trimmed.
C21_WitnessPadded ==
  \E r \in Requests :
     /\ Evaluated(r)
     /\ Len(loc[r].guess) # Len(loc[r].session.target)
     /\ loc[r].engine = "anagram"

\* C22: a feedback list stored in compact form has one character of g, y, b
\* per entry, and reading it back gives the list again.
C22_CompactRoundTrip ==
  \A r \in Requests :
     /\ pc[r] \in {"read_back", "done"}
          => LET result == guesses[loc[r].sid][1].result
             IN  /\ Len(result) = Len(loc[r].feedback)
                 /\ \A i \in 1..Len(result) : result[i] \in {"g", "y", "b"}
     /\ resp[r].kind = "detail" => resp[r].feedback = loc[r].feedback

\* A list with all three marks has been stored and read back.
C22_Witness ==
  \E r \in Requests :
     /\ resp[r].kind = "detail"
     /\ {"correct", "present", "absent"}
           \subseteq {loc[r].feedback[i] : i \in 1..Len(loc[r].feedback)}
     /\ resp[r].feedback = loc[r].feedback

\* The step in which worker r is answered by the registry call named kind;
\* its locals then hold the arguments.
RegistryStep(r, kind) == pc[r] = "idle" /\ pc'[r] = "done" /\ resp'[r].kind = kind

\* The key a spelling stands for: trimmed and lowercased.
KeyOf(puzzle_type) == Lower(Strip(puzzle_type))

\* C27: a lookup resolves the trimmed, lowercased key: it returns the engine
\* registered under it, whatever the spelling, fails if there is none, and
\* leaves the registry unchanged. register(k, E) puts E under the key of k
\* (so that later lookups return E) and leaves every other key as it was;
\* with an empty or blank key it fails and leaves the registry unchanged.
C27_RegistryLookupAndRegister ==
  [][\A r \in Requests :
        LET key == KeyOf(loc'[r].registry_arg)
        IN  /\ RegistryStep(r, "lookup") =>
                  /\ registry' = registry
                  /\ IF key \in DOMAIN registry
                     THEN resp'[r].error = "" /\ loc'[r].engine = registry[key]
                     ELSE resp'[r].error = "key_error"
            /\ RegistryStep(r, "register") =>
                  IF key = <<>>
                  THEN resp'[r].error = "value_error" /\ registry' = registry
                  ELSE /\ resp'[r].error = ""
                       /\ DOMAIN registry' = DOMAIN registry \cup {key}
                       /\ registry'[key] = loc'[r].engine
                       /\ \A k \in DOMAIN registry \ {key} : registry'[k] = registry[k]]_vars

\* A padded and capitalised spelling of a key whose engine was overridden is
\* answered with the overriding engine, the other key keeping its own.
C27_Witness ==
  \E r \in Requests :
     /\ resp[r].kind = "lookup" /\ resp[r].error = ""
     /\ loc[r].registry_arg # KeyOf(loc[r].registry_arg)
     /\ KeyOf(loc[r].registry_arg) = KeyAnagram
     /\ loc[r].engine = "ClassicEngine"
     /\ registry[KeyClassic] = "ClassicEngine"

GuessRejected(r) ==
  /\ pc[r] = "idle" /\ pc'[r] = "done"
  /\ resp'[r].kind = "guess"
  /\ resp'[r].error \in {"session_not_found", "already_completed",
                         "length_mismatch", "not_in_dictionary"}

\* C24: a guess request rejected because the session does not exist or is
\* completed, or the guess has the wrong length or is not in the dictionary,
\* is answered with 400 and records no Guess and changes no session: status,
\* attempts_used and hints_used stay as they were.
C24_RejectedGuessConsumesNothing ==
  [][\A r \in Requests :
        GuessRejected(r) =>
          /\ resp'[r].http = 400
          /\ guesses' = guesses
          /\ sessions' = sessions]_vars

\* A guess has been rejected as not in the dictionary on a session in
\* progress that has a guess and a hint.
C24_Witness ==
  \E r \in Requests, sid \in Sids :
     /\ resp[r].kind = "guess" /\ resp[r].error = "not_in_dictionary"
     /\ ~sessions[sid].is_completed
     /\ Len(guesses[sid]) = 1
     /\ sessions[sid].hints_used = 1

\* The step in which request r counts the guesses of its session and goes on
\* or is answered.
CountStep(r) == pc[r] = "guess_count" /\ pc'[r] # "guess_count"

\* C25: a guess that arrives for a session that is not completed but holds
\* max_attempts guesses or more is rejected with the conflict error (409);
\* no Guess is recorded and the session becomes LOST: is_completed set,
\* is_won unset, ended_at set, nothing else changed.
C25_ExhaustedSessionForcedLost ==
  [][\A r \in Requests :
        LET sid == loc[r].sid
        IN  (/\ CountStep(r)
             /\ ~sessions[sid].is_completed
             /\ Len(guesses[sid]) >= sessions[sid].max_attempts)
            => /\ pc'[r] = "done"
               /\ resp'[r].http = 409
               /\ resp'[r].error = "no_attempts_remaining"
               /\ resp'[r].status = "LOST"
               /\ guesses' = guesses
               /\ sessions'[sid] = [sessions[sid] EXCEPT !.is_completed = TRUE,
                                                        !.is_won = FALSE,
                                                        !.ended_at = Some(now)]]_vars

\* A guess has been rejected with the conflict error on a session that held
\* max_attempts guesses from the start; the session is LOST.
C25_Witness ==
  \E r \in Requests, sid \in Sids :
     /\ resp[r].kind = "guess" /\ resp[r].error = "no_attempts_remaining"
     /\ resp[r].session_id = sid
     /\ Len(guesses[sid]) = sessions[sid].max_attempts
     /\ sessions[sid].is_completed /\ ~sessions[sid].is_won
     /\ ~IsNone(sessions[sid].ended_at)

\* C26: a guess on a session with attempts left whose puzzle_type has no
\* engine in the registry is answered with a client error (4xx, unknown
\* puzzle type), records no Guess and changes no session.
C26_UnknownPuzzleTypeIsClientError ==
  [][\A r \in Requests :
        LET sid == loc[r].sid
        IN  (/\ CountStep(r)
             /\ sessions[sid].puzzle_type \notin RegistryKeys
             /\ Len(guesses[sid]) < sessions[sid].max_attempts)
            => /\ pc'[r] = "done"
               /\ resp'[r].http \in 400..499
               /\ guesses' = guesses
               /\ sessions' = sessions]_vars

\* C28: the leaderboard lists exactly the completed sessions that match the
\* mode and puzzle_type filters given, each once, with its score and its
\* ended_at, ordered by score descending and, among equal scores, by
\* ended_at ascending.
C28_LeaderboardContentAndOrder ==
  \A r \in Requests :
     resp[r].kind = "leaderboard" =>
       LET es == resp[r].entries
           matching ==
             {sid \in Sids :
                /\ sessions[sid].is_completed
                /\ (loc[r].mode = "" \/ sessions[sid].mode = loc[r].mode)
                /\ (loc[r].puzzle_type = ""
                      \/ sessions[sid].puzzle_type = loc[r].puzzle_type)}
       IN  /\ {es[i].session_id : i \in 1..Len(es)} = matching
           /\ Len(es) = Cardinality(matching)
           /\ \A i \in 1..Len(es) :
                 /\ es[i].score
                      = ComputeScore(sessions[es[i].session_id], Len(guesses[es[i].session_id]))
                 /\ es[i].ended_at = Get(sessions[es[i].session_id].ended_at)
           /\ \A i, j \in 1..Len(es) :
                 i < j => \/ es[i].score > es[j].score
                          \/ /\ es[i].score = es[j].score
                             /\ es[i].ended_at <= es[j].ended_at

\* Sessions with scores 3, 5, 5, created in this order, the second one
\* ended after the third: the leaderboard lists the third, the second, the
\* first.
C28_Witness ==
  \E r \in Requests :
     /\ resp[r].kind = "leaderboard"
     /\ Len(resp[r].entries) = 3
     /\ resp[r].entries[1].session_id = 3 /\ resp[r].entries[1].score = 5
     /\ resp[r].entries[2].session_id = 2 /\ resp[r].entries[2].score = 5
     /\ resp[r].entries[3].session_id = 1 /\ resp[r].entries[3].score = 3
     /\ resp[r].entries[1].ended_at < resp[r].entries[2].ended_at

\* A session in progress matches the filters of a leaderboard that lists
\* the completed ones only.
C28_WitnessInProgress ==
  \E r \in Requests, sid \in Sids :
     /\ resp[r].kind = "leaderboard"
     /\ ~sessions[sid].is_completed
     /\ sessions[sid].mode = loc[r].mode
     /\ Len(resp[r].entries) = 2

\* C29: a start-game request for word length n either creates one session
\* in the initial state (IN_PROGRESS, no guesses, hints_used = 0,
\* total_time_secs and ended_at unset, not won) whose target is an active
\* word of n letters, or, when no active word has n letters, fails with 400
\* and creates no session.
C29_StartGameCreatesInitialSession ==
  [][\A r \in Requests, n \in WordLengths, ma \in SeqAttemptChoices, md \in Modes,
        pt \in PuzzleTypes, d \in Difficulties, tl \in TimeLimits :
        StartGame(r, n, ma, md, pt, d, tl) =>
          IF \E w \in WordTable : w.is_active /\ w.length = n
          THEN /\ resp'[r].http = 200
               /\ resp'[r].status = "IN_PROGRESS"
               /\ resp'[r].attempts_used = 0
               /\ resp'[r].hints_used = 0
               /\ Len(sessions') = Len(sessions) + 1
               /\ SubSeq(sessions', 1, Len(sessions)) = sessions
               /\ resp'[r].session_id = Len(sessions')
               /\ guesses'[Len(sessions')] = <<>>
               /\ LET s == sessions'[Len(sessions')]
                  IN  /\ ~s.is_completed /\ ~s.is_won
                      /\ IsNone(s.ended_at)
                      /\ s.hints_used = 0
                      /\ IsNone(s.total_time_secs)
                      /\ Len(s.target) = n /\ s.length = n
                      /\ \E w \in WordTable : w.is_active /\ w.text = s.target
          ELSE /\ resp'[r].http = 400
               /\ sessions' = sessions
               /\ guesses' = guesses]_vars

\* A session has been created, in its initial state, in answer to a
\* start-game request.
C29_Witness ==
  \E r \in Requests :
     /\ resp[r].kind = "start" /\ resp[r].http = 200
     /\ Len(sessions) = 1
     /\ resp[r].session_id = 1
     /\ guesses[1] = <<>>
     /\ ~sessions[1].is_completed

\* A start-game request has failed for want of an active word; there is no
\* session.
C29_WitnessNoWord ==
  \E r \in Requests :
     /\ resp[r].kind = "start" /\ resp[r].http = 400
     /\ sessions = <<>>

\* The effect of a successful hint of request r on its session.
HintEffect(r) ==
  LET sid == loc[r].sid
      s   == sessions[sid]
  IN  /\ resp'[r].index \in 0..(s.length - 1)
      /\ loc[r].hint_type = "reveal_first_letter" => resp'[r].index = 0
      /\ resp'[r].letter = s.target[resp'[r].index + 1]
      /\ sessions'[sid].hints_used = s.hints_used + 1
      /\ resp'[r].remaining = MAX_HINTS_PER_SESSION - sessions'[sid].hints_used
      /\ sessions' = [sessions EXCEPT ![sid].hints_used = s.hints_used + 1]
      /\ guesses' = guesses

\* C30: a successful hint returns an index within the target (0 for
\* reveal_first_letter), the letter of the target at that index and
\* remaining = MAX_HINTS_PER_SESSION - hints_used after the increment; it
\* raises the stored hints_used by exactly 1 and changes nothing else.
C30_HintEffect ==
  [][\A r \in Requests : (HintStep(r) /\ resp'[r].http = 200) => HintEffect(r)]_vars

\* The same, of a hint request that no other request overlaps.
C30_HintEffectAlone ==
  [][\A r \in Requests :
        (HintStep(r) /\ resp'[r].http = 200 /\ \A q \in Requests \ {r} : pc[q] = "idle")
        => HintEffect(r)]_vars

\* The step of request r is one of the three that may complete session sid:
\* the commit of a correct or max_attempts-th guess, or the rejection of a
\* guess for exhausted attempts.
CompletingStep(r, sid) ==
  /\ loc[r].sid = sid
  /\ \/ CommitStep(r) /\ Completing(r)
     \/ /\ CountStep(r)
        /\ AttemptsExhausted(Len(guesses[sid]), loc[r].session.max_attempts)

\* A guess request for a session past its limit is handled as any other: a
\* guess that passes the checks on its content and on the session goes on
\* to be counted, evaluated by the engine, inserted and committed as the
\* session's next Guess.
PastLimitGuessHandled ==
  /\ \A r \in Requests, sid \in Sids, raw \in GuessInputs :
        (/\ GuessValidate(r, sid, raw)
         /\ PastLimit(sessions[sid], now)
         /\ ~sessions[sid].is_completed
         /\ ~GuessWordInvalid(raw)
         /\ InDictionary(NormalizeWord(raw), sessions[sid].length))
        => pc'[r] = "guess_count"
  /\ \A r \in Requests :
        LET sid == loc[r].sid
        IN  (pc[r] # "idle" /\ pc[r] # "done" /\ pc'[r] # pc[r] /\ sid \in Sids
             /\ PastLimit(sessions[sid], now))
            => /\ (CountStep(r) /\ Len(guesses[sid]) < sessions[sid].max_attempts)
                    => /\ pc'[r] = "guess_insert"
                       /\ loc'[r].feedback =
                             EngineEvaluate(sessions[sid].puzzle_type, sessions[sid].target,
                                            loc[r].guess).feedback
               /\ pc[r] = "guess_insert" => pc'[r] = "guess_update"
               /\ CommitStep(r)
                    => /\ Len(guesses'[sid]) = Len(guesses[sid]) + 1
                       /\ guesses'[sid][Len(guesses'[sid])].guess_word = loc[r].guess
                       /\ guesses'[sid][Len(guesses'[sid])].attempt_number
                             = Len(guesses[sid]) + 1
                       /\ guesses'[sid][Len(guesses'[sid])].result
                             = FeedbackToCompact(loc[r].feedback)

\* C31: the time limit never ends a session: is_completed changes only in a
\* step of a guess request (the commit of a correct or max_attempts-th guess,
\* or the exhausted-attempts rejection), never by the passing of time, and
\* a guess on a timed session past its limit is still evaluated and recorded.
C31_TimeLimitNeverEndsSession ==
  [][/\ \A sid \in Sids :
          sessions'[sid].is_completed # sessions[sid].is_completed
          => \E r \in Requests : CompletingStep(r, sid)
     /\ PastLimitGuessHandled]_vars

\* A timed session has been completed by a guess committed after its limit
\* had elapsed: its ended_at lies past started_at + time_limit_secs.
C31_Witness ==
  \E sid \in Sids :
     /\ sessions[sid].mode = "timed"
     /\ sessions[sid].is_completed
     /\ Get(sessions[sid].ended_at) - sessions[sid].started_at
           > Get(sessions[sid].time_limit_secs)
     /\ Len(guesses[sid]) = sessions[sid].max_attempts
     /\ sessions[sid].max_attempts >= 2

\* C32: under any interleaving of guess requests for one session, no Guess
\* is inserted once the session is stored as completed, and the guess that
\* completed it (a correct one, or the max_attempts-th) is the
\* highest-numbered one.
C32_NoGuessAfterCompletion ==
  /\ [][\A sid \in Sids :
          sessions[sid].is_completed => guesses'[sid] = guesses[sid]]_vars
  /\ [](\A sid \in Sids :
          sessions[sid].is_completed =>
             /\ guesses[sid] # <<>>
             /\ FinalGuess(sid, guesses[sid][Len(guesses[sid])])
             /\ \A i \in 1..(Len(guesses[sid]) - 1) :
                   ~FinalGuess(sid, guesses[sid][i]))

\* The same, of requests handled one after the other.
C32_NoGuessAfterCompletionAlone ==
  [][\A sid \in Sids :
        (sessions[sid].is_completed /\ \E r \in Requests : \A q \in Requests \ {r} : pc[q] = "idle")
        => guesses'[sid] = guesses[sid]]_vars

\* views._compute_score_breakdown on the stored session sid and its stored
\* guesses: base score, time bonus, hint penalty and final score.
StoredBreakdown(ss, gs, sid) ==
  <<ComputeBaseScore(ss[sid], Len(gs[sid])), ComputeTimeBonus(ss[sid]),
    ComputeHintPenalty(ss[sid]), ComputeScore(ss[sid], Len(gs[sid]))>>

\* C33: the score of a completed session is final: once is_completed is
\* stored, no step of a guess or hint request that was in flight changes the
\* score breakdown computed from the stored session and its guesses.
C33_CompletedScoreIsFinal ==
  [][\A sid \in Sids :
        sessions[sid].is_completed =>
           StoredBreakdown(sessions', guesses', sid) = StoredBreakdown(sessions, guesses, sid)]_vars

\* The part of C33 that concerns hints: the hint penalty of a completed
\* session does not change.
C33_CompletedHintPenaltyIsFinal ==
  [][\A sid \in Sids :
        sessions[sid].is_completed =>
           ComputeHintPenalty(sessions'[sid]) = ComputeHintPenalty(sessions[sid])]_vars

\* The same as C33, of requests handled one after the other.
C33_CompletedScoreIsFinalAlone ==
  [][\A sid \in Sids :
        (sessions[sid].is_completed /\ \E r \in Requests : \A q \in Requests \ {r} : pc[q] = "idle")
        => StoredBreakdown(sessions', guesses', sid) = StoredBreakdown(sessions, guesses, sid)]_vars

\* C34: when a hint request and a guess request for one session interleave,
\* neither write stores the stale values the other request's fields have in
\* its instance: the hint's UPDATE raises the stored hints_used (by 1 when no
\* other hint came between) and leaves is_completed, is_won and ended_at as
\* the guess stored them; the guess's UPDATE stores its is_completed, is_won
\* and ended_at and leaves hints_used as the hint stored it.
C34_HintAndGuessWritesDisjoint ==
  [][\A r \in Requests :
        LET sid == loc[r].sid
        IN  /\ (HintStep(r) /\ resp'[r].http = 200) =>
                 /\ sessions'[sid].is_completed = sessions[sid].is_completed
                 /\ sessions'[sid].is_won = sessions[sid].is_won
                 /\ sessions'[sid].ended_at = sessions[sid].ended_at
                 /\ loc[r].session.hints_used = sessions[sid].hints_used
                      => sessions'[sid].hints_used = sessions[sid].hints_used + 1
            /\ (CommitStep(r) \/ CountStep(r)) =>
                 /\ sessions'[sid].hints_used = sessions[sid].hints_used
                 /\ (CommitStep(r) /\ Completing(r)) =>
                       /\ sessions'[sid].is_completed
                       /\ sessions'[sid].is_won = loc[r].is_correct
                       /\ sessions'[sid].ended_at = Some(now)]_vars

\* A guess request is about to complete the session while its instance
\* holds a hints_used older than the stored one: the hint was applied after
\* the guess request had loaded the session.
C34_Witness ==
  \E r \in Requests :
     /\ pc[r] = "guess_update" /\ Completing(r)
     /\ loc[r].session.hints_used < sessions[loc[r].sid].hints_used
     /\ \E q \in Requests \ {r} : resp[q].kind = "hint" /\ resp[q].http = 200

\* A hint request is about to store hints_used while its instance holds the
\* session as in progress and the stored row is completed: the guess was
\* committed after the hint request had loaded the session.
C34_WitnessStaleHint ==
  \E r \in Requests :
     /\ pc[r] = "hint_apply"
     /\ ~loc[r].session.is_completed
     /\ sessions[loc[r].sid].is_completed
     /\ \E q \in Requests \ {r} : pc[q] = "guess_refresh"

\* C35: requests handled one after the other: a session is WON iff its
\* highest-numbered guess is correct, no guess but the highest-numbered one
\* is correct, and a session is LOST iff it holds exactly max_attempts
\* guesses, none of them correct.
C35_OutcomeMatchesGuesses ==
  \A sid \in Sids :
     LET rows == guesses[sid]
         n    == Len(rows)
     IN  /\ SessionStatus(sessions[sid]) = "WON"
              <=> (n > 0 /\ rows[n].is_correct /\ rows[n].attempt_number = n)
         /\ \A i \in 1..(n - 1) : ~rows[i].is_correct
         /\ SessionStatus(sessions[sid]) = "LOST"
              <=> (n = sessions[sid].max_attempts /\ AllWrong(sid))

\* A session won on its second guess, after a wrong first one.
C35_Witness ==
  \E sid \in Sids :
     /\ SessionStatus(sessions[sid]) = "WON"
     /\ Len(guesses[sid]) = 2
     /\ ~guesses[sid][1].is_correct /\ guesses[sid][2].is_correct

\* A session lost with max_attempts >= 2 wrong guesses.
C35_WitnessLost ==
  \E sid \in Sids :
     /\ SessionStatus(sessions[sid]) = "LOST"
     /\ sessions[sid].max_attempts >= 2
     /\ Len(guesses[sid]) = sessions[sid].max_attempts
     /\ AllWrong(sid)
     /\ sessions[sid].hints_used > 0

\* The session holds max_attempts guesses or more.
Exhausted(sid) == AttemptsExhausted(Len(guesses[sid]), sessions[sid].max_attempts)

\* C36: requests handled one after the other: a session with attempts_used
\* >= max_attempts is completed; a (well-formed) guess on it is rejected as
\* already completed, and the "no attempts remaining" branch with its forced
\* transition to LOST is never taken.
C36_ExhaustedBranchUnreachable ==
  /\ [](/\ \A sid \in Sids : Exhausted(sid) => sessions[sid].is_completed
        /\ \A r \in Requests :
              /\ resp[r].error # "no_attempts_remaining"
              /\ resp[r].http # 409
              /\ pc[r] = "guess_count"
                   => ~AttemptsExhausted(AttemptsUsed(loc[r].sid),
                                         loc[r].session.max_attempts))
  /\ [][\A r \in Requests, sid \in Sids, raw \in GuessInputs :
          (GuessValidate(r, sid, raw) /\ Exhausted(sid) /\ ~GuessWordInvalid(raw))
          => /\ pc'[r] = "done"
             /\ resp'[r].http = 400
             /\ resp'[r].error = "already_completed"]_vars

\* A guess on a session that holds max_attempts wrong guesses has been
\* rejected as already completed.
C36_Witness ==
  \E r \in Requests, sid \in Sids :
     /\ Exhausted(sid) /\ AllWrong(sid)
     /\ sessions[sid].max_attempts >= 2
     /\ sessions[sid].is_completed
     /\ resp[r].kind = "guess" /\ resp[r].error = "already_completed"

\* C37: every session terminates within its attempt budget: a session that
\* holds max_attempts guesses is completed; while valid guesses keep being
\* submitted and handled, a session eventually is completed; it stays
\* completed, and every guess submitted after that is rejected.
C37_SessionTerminates ==
  /\ [](\A sid \in Sids : Exhausted(sid) => sessions[sid].is_completed)
  /\ (sessions # <<>>) ~> (sessions # <<>> /\ sessions[1].is_completed)
  /\ [][\A sid \in Sids : sessions[sid].is_completed => sessions'[sid].is_completed]_vars
  /\ [][\A r \in Requests, sid \in Sids, raw \in GuessInputs :
          (GuessValidate(r, sid, raw) /\ sessions[sid].is_completed /\ ~GuessWordInvalid(raw))
          => /\ pc'[r] = "done"
             /\ resp'[r].http = 400
             /\ resp'[r].error = "already_completed"
             /\ guesses' = guesses]_vars

\* A session of two attempts has reached a terminal state with its budget
\* used up, and a later guess has been rejected.
C37_Witness ==
  \E r \in Requests, sid \in Sids :
     /\ sessions[sid].max_attempts = 2
     /\ Len(guesses[sid]) = 2
     /\ sessions[sid].is_completed
     /\ resp[r].kind = "guess" /\ resp[r].error = "already_completed"

\* max(1, min(10, requested - floor(max(0, difficulty - 1) / 3))), written
\* out by cases for requested and difficulty in 1..10.
ExpectedMaxAttempts(requested, difficulty) ==
  LET drop == IF difficulty <= 3 THEN 0
              ELSE IF difficulty <= 6 THEN 1
              ELSE IF difficulty <= 9 THEN 2
              ELSE 3
  IN  IF requested - drop < 1 THEN 1 ELSE requested - drop

\* C38: for requested max_attempts and difficulty in 1..10, start-game
\* stores max_attempts = max(1, min(10, requested - floor(max(0, difficulty
\* - 1) / 3))): a value within 1..10, never above the requested one and
\* equal to it when difficulty <= 3; it is the value the responses return
\* and the one the win/loss transition uses.
C38_AdjustedMaxAttempts ==
  /\ [][\A r \in Requests, ma \in RequestedAttempts, d \in RequestedDifficulties :
          StartGame(r, 3, ma, "classic", "classic", d, None) =>
             LET m == sessions'[Len(sessions')].max_attempts
             IN  /\ m = ExpectedMaxAttempts(ma, d)
                 /\ m \in 1..10
                 /\ m <= ma
                 /\ d <= 3 => m = ma
                 /\ resp'[r].max_attempts = m
                 /\ sessions'[Len(sessions')].difficulty = d]_vars
  /\ [][\A sid \in Sids : sessions'[sid].max_attempts = sessions[sid].max_attempts]_vars
  /\ [](\A sid \in Sids :
          /\ SessionStatus(sessions[sid]) = "LOST"
                <=> (AllWrong(sid) /\ Len(guesses[sid]) = sessions[sid].max_attempts)
          /\ Len(guesses[sid]) <= sessions[sid].max_attempts
          /\ \A r \in Requests :
                (resp[r].kind = "guess" /\ resp[r].http = 200 /\ resp[r].session_id = sid)
                => resp[r].max_attempts = sessions[sid].max_attempts)

\* A session started at difficulty 10 holds seven attempts (ten requested,
\* three taken off) and is lost with its seventh wrong guess.
C38_Witness ==
  \E r \in Requests, sid \in Sids :
     /\ sessions[sid].difficulty = 10
     /\ sessions[sid].max_attempts = 7
     /\ Len(guesses[sid]) = 7
     /\ SessionStatus(sessions[sid]) = "LOST"
     /\ resp[r].kind = "guess" /\ resp[r].http = 200
     /\ resp[r].max_attempts = 7 /\ resp[r].status = "LOST"

\* A session started at difficulty 7 with one attempt requested holds one
\* attempt: the lower clamp.
C38_WitnessClamped ==
  \E r \in Requests, sid \in Sids :
     /\ sessions[sid].difficulty = 7
     /\ sessions[sid].max_attempts = 1
     /\ resp[r].kind = "start" /\ resp[r].max_attempts = 1

====
